---- MODULE Spec2Model ----
(***************************************************************************)
(* Model of the calculation engine of the electrical load calculator        *)
(* (src/src/utils/calculations.js) and of the project edits that feed it.   *)
(*                                                                          *)
(* Numbers.  JavaScript numbers are modelled as exact rationals kept as     *)
(* integers in a fixed unit:                                                *)
(*   - watts, volts, amps, slots, hours: plain integers;                    *)
(*   - NEC demand figures (VA): integers in units of 1/20 VA, because the   *)
(*     demand factors are 0.4, 0.75 and 0.65 (denominators 5, 4 and 20);    *)
(*   - Math.round and Math.ceil of a quotient are computed on the           *)
(*     numerator and the denominator of that quotient.                      *)
(***************************************************************************)
EXTENDS Integers, Sequences, FiniteSets, TLC

VARIABLES
    loads,      \* project.loads: sequence of load records
    service,    \* project.service: [serviceVoltage, mainBreakerAmps]
    sqFt,       \* third argument of calculateNECOptionalMethod (0 = null)
    nec,        \* calculateNECOptionalMethod(loads, service, sqFt)
    backupDays, \* battery backup duration, in quarter days
    options,    \* options of calculateBatterySizing
    specs,      \* BATTERY_SPECS, the battery product table
    batt,       \* calculateBatterySizing(loads, backupDays, options)
    practical,  \* calculatePracticalLoad(loads)
    panel,      \* project.panel
    ev,         \* project.ev
    evf,        \* calculateEVFeasibility(project)
    panelSlots, \* calculatePanelSlots(panel)
    modeledSlots,  \* calculateModeledSlots(loads)
    totalAvailableSlots,  \* Step 1 'Total Available Panel Slots'
    tandemOverride,  \* Step 4 local state: slots assumed freed by tandems
    nextLoadId,  \* module counter of createLoadEntry
    now,        \* the value Date.now() returns
    partialHome, \* project.battery.partialHome: [enabled, selections]
    currentStep \* the wizard step shown (App.jsx currentStep)

necVars == <<service, sqFt, nec>>
battVars == <<backupDays, options, specs, batt, practical>>
evVars == <<panel, ev, evf, panelSlots, modeledSlots, totalAvailableSlots>>
uiVars == <<tandemOverride, nextLoadId, now, partialHome, currentStep>>
vars == <<loads, necVars, battVars, evVars, uiVars>>

----------------------------------------------------------------------------
(* Bounds of the model *)

\* longest load list
MaxLoads == 4

\* largest charger count tried (the UI clamps the count to 1..4)
MaxChargers == 2

----------------------------------------------------------------------------
(* Arithmetic helpers *)

\* JavaScript null for an optional number (motor.lra: null)
null == 0 - 1

\* Math.max(a, b)
Max(a, b) == IF a >= b THEN a ELSE b

\* Math.min(a, b)
Min(a, b) == IF a <= b THEN a ELSE b

\* Math.round(n / d) for n >= 0, d > 0: floor(n/d + 1/2)
MathRound(n, d) ==
    IF 2 * (n % d) >= d THEN (n \div d) + 1 ELSE n \div d

\* Math.ceil(n / d) for n >= 0, d > 0
MathCeil(n, d) == (n + d - 1) \div d

\* unit of the demand figures: 1 VA = 20 units (lcm of the denominators of
\* the demand factors 0.4, 0.75, 0.65)
VAUnit == 4 * 5

\* array.reduce((sum, l) => sum + l.usage.assumedWatts, 0)
RECURSIVE SumWatts(_)
SumWatts(s) ==
    IF s = <<>> THEN 0 ELSE Head(s).usage.assumedWatts + SumWatts(Tail(s))

----------------------------------------------------------------------------
(* Category strings.  A category is the sequence of the words of its name,  *)
(* so that String.prototype.includes and String.prototype.replace are       *)
(* modelled by what they do on the name.                                    *)

CatLighting    == <<"General", "Lighting/Receptacles">>
CatOther       == <<"Other">>
CatEV          == <<"EV", "Charger">>
CatDishwasher  == <<"Dishwasher">>
CatDisposal    == <<"Garbage", "Disposal">>
CatMicrowave   == <<"Microwave">>
CatWasher      == <<"Clothes", "Washer">>
CatWaterHeater == <<"Water", "Heater", "(Electric)">>
CatDehumid     == <<"Dehumidifier">>
CatRange       == <<"Range/Oven">>
CatCooktop     == <<"Cooktop">>
CatDryer       == <<"Electric", "Dryer">>
CatACCondenser == <<"AC", "Condenser">>
CatHeatPump    == <<"Heat", "Pump">>
CatAirHandler  == <<"Air", "Handler">>
CatFurnace     == <<"Gas", "Furnace", "Blower">>
CatBoiler      == <<"Boiler">>

\* haystack.includes(needle)
Includes(haystack, needle) ==
    \E i \in 0..(Len(haystack) - Len(needle)) :
        \A j \in 1..Len(needle) : haystack[i + j] = needle[j]

\* c.replace('Electric ', ''): drops the first word "Electric" that is
\* followed by a space (i.e. that is not the last word of the name)
ReplaceElectric(c) ==
    LET hits == {i \in 1..(Len(c) - 1) : c[i] = "Electric"}
    IN  IF hits = {} THEN c
        ELSE LET k == CHOOSE i \in hits : \A j \in hits : i <= j
             IN  SubSeq(c, 1, k - 1) \o SubSeq(c, k + 1, Len(c))

----------------------------------------------------------------------------
(* Load model *)

\* createLoadEntry(overrides): a load with the defaults of the source,
\* overridden by category, watts, hours, motor data and breaker
createLoadEntry(id, category, watts, hours, isMotor, lra, poles, type) ==
    [ id            |-> id,
      category      |-> category,
      isNECBaseline |-> FALSE,
      breaker       |-> [poles |-> poles, amps |-> 15, type |-> type],
      usage         |-> [assumedWatts |-> watts, hoursPerDay |-> hours,
                         includeInServiceCalc |-> TRUE,
                         includeInBatteryCalc |-> TRUE],
      motor         |-> [isMotor |-> isMotor, lra |-> lra] ]

----------------------------------------------------------------------------
(* NEC Demand Estimator: calculateNECOptionalMethod *)

smallApplianceVA == 3000
laundryVA == 1500

fixedCategories ==
    <<CatDishwasher, CatDisposal, CatMicrowave, CatWasher, CatWaterHeater,
      CatDehumid>>

\* fixedCategories.some(c => l.category.includes(c.replace('Electric ', '')))
isFixedLoad(l) ==
    \E k \in 1..Len(fixedCategories) :
        Includes(l.category, ReplaceElectric(fixedCategories[k]))

isCookingLoad(l) == l.category = CatRange \/ l.category = CatCooktop

isDryerLoad(l) == l.category = CatDryer

isCoolingLoad(l) ==
    l.category = CatACCondenser \/ l.category = CatHeatPump
        \/ l.category = CatAirHandler

isHeatingLoad(l) ==
    Includes(l.category, <<"Furnace">>) \/ Includes(l.category, <<"Boiler">>)

isLightingLoad(l) == l.category = CatLighting

isEVLoad(l) == l.category = CatEV

isOtherLargeLoad(l) ==
    /\ ~isFixedLoad(l)
    /\ ~isCookingLoad(l)
    /\ ~isDryerLoad(l)
    /\ ~isCoolingLoad(l)
    /\ ~isHeatingLoad(l)
    /\ l.category # CatLighting
    /\ l.category # CatEV

\* Step 1: general lighting VA
generalLoadVA(ls, sq) ==
    IF sq # 0 /\ sq > 0 THEN sq * 3
    ELSE LET lighting == SumWatts(SelectSeq(ls, isLightingLoad))
         IN  IF lighting = 0 THEN 4500 ELSE lighting

\* mutant of demandGeneral: above 10,000 VA the whole total is charged at 40%
demandGeneral_WholeAtFactor(ls, sq) ==
    LET generalTotal == generalLoadVA(ls, sq) + smallApplianceVA + laundryVA
    IN  IF generalTotal <= 10000 THEN generalTotal * VAUnit
        ELSE generalTotal * 8

\* Step 3: demand factor on general + small appliance + laundry (1/20 VA)
demandGeneral(ls, sq) ==
    LET generalTotal == generalLoadVA(ls, sq) + smallApplianceVA + laundryVA
    IN  IF generalTotal <= 10000 THEN generalTotal * VAUnit
        ELSE 10000 * VAUnit + (generalTotal - 10000) * 8

\* mutant of fixedLoadVA: the 75% factor is applied whatever the number of
\* fixed appliances
fixedLoadVA_AlwaysFactor(ls) ==
    SumWatts(SelectSeq(ls, isFixedLoad)) * 15

\* Step 4: fixed appliances (1/20 VA)
fixedLoadVA(ls) ==
    LET fixedLoads == SelectSeq(ls, isFixedLoad)
        sum == SumWatts(fixedLoads)
    IN  IF Len(fixedLoads) >= 4 THEN sum * 15 ELSE sum * VAUnit

\* mutant of cookingDemand: a single cooking load is charged the flat
\* 8,000 VA whatever its watts
cookingDemand_FlatWhenSingle(ls) ==
    LET cookingLoads == SelectSeq(ls, isCookingLoad)
    IN  IF Len(cookingLoads) > 0
        THEN IF Len(cookingLoads) = 1 THEN 8000 * VAUnit
             ELSE SumWatts(cookingLoads) * 13
        ELSE 0

\* Step 5: cooking (1/20 VA)
cookingDemand(ls) ==
    LET cookingLoads == SelectSeq(ls, isCookingLoad)
        totalCookingWatts == SumWatts(cookingLoads)
    IN  IF Len(cookingLoads) > 0
        THEN IF Len(cookingLoads) = 1 /\ totalCookingWatts <= 12000
             THEN 8000 * VAUnit
             ELSE totalCookingWatts * 13
        ELSE 0

\* Step 6: dryer (1/20 VA)
dryerDemand(ls) ==
    LET dryerLoads == SelectSeq(ls, isDryerLoad)
    IN  IF Len(dryerLoads) > 0
        THEN Max(5000, SumWatts(dryerLoads)) * VAUnit
        ELSE 0

\* Step 7: HVAC (1/20 VA)
hvacDemand(ls) ==
    LET coolingVA == SumWatts(SelectSeq(ls, isCoolingLoad))
        heatingVA == SumWatts(SelectSeq(ls, isHeatingLoad))
    IN  Max(coolingVA, heatingVA) * VAUnit

\* Step 8: other large loads (1/20 VA)
otherLargeVA(ls) == SumWatts(SelectSeq(ls, isOtherLargeLoad)) * VAUnit

\* EV load (1/20 VA)
evVA(ls) == SumWatts(SelectSeq(ls, isEVLoad)) * VAUnit

\* mutant of necStatus: the thresholds are inclusive
necStatus_Inclusive(total, svc) ==
    LET capacity == VAUnit * svc.serviceVoltage * svc.mainBreakerAmps
    IN  IF total >= capacity THEN "Undersized"
        ELSE IF 10 * total >= 8 * capacity THEN "Borderline"
        ELSE "OK"

\* status from ratio = serviceAmps / mainBreakerAmps, with
\* serviceAmps = total / (VAUnit * serviceVoltage)
necStatus(total, svc) ==
    LET capacity == VAUnit * svc.serviceVoltage * svc.mainBreakerAmps
    IN  IF total > capacity THEN "Undersized"
        ELSE IF 10 * total > 8 * capacity THEN "Borderline"
        ELSE "OK"

calculateNECOptionalMethod(ls, svc, sq) ==
    LET totalDemandVA ==
            demandGeneral(ls, sq) + fixedLoadVA(ls) + cookingDemand(ls)
                + dryerDemand(ls) + hvacDemand(ls) + otherLargeVA(ls) + evVA(ls)
    IN  [ totalDemandVA |-> totalDemandVA,                \* 1/20 VA
          \* Math.round(serviceAmps * 10) / 10, in tenths of an amp
          serviceAmps   |-> MathRound(totalDemandVA * 10,
                                      VAUnit * svc.serviceVoltage),
          status        |-> necStatus(totalDemandVA, svc),
          \* Math.round(ratio * 100)
          ratio         |-> MathRound(totalDemandVA * 100,
                               VAUnit * svc.serviceVoltage * svc.mainBreakerAmps),
          breakdown     |->
            [ generalAndSmallAppliance |-> MathRound(demandGeneral(ls, sq), VAUnit),
              fixedAppliances |-> MathRound(fixedLoadVA(ls), VAUnit),
              cooking    |-> MathRound(cookingDemand(ls), VAUnit),
              dryer      |-> MathRound(dryerDemand(ls), VAUnit),
              hvac       |-> MathRound(hvacDemand(ls), VAUnit),
              otherLarge |-> MathRound(otherLargeVA(ls), VAUnit),
              ev         |-> MathRound(evVA(ls), VAUnit) ] ]

----------------------------------------------------------------------------
(* Practical Load Aggregator: calculatePracticalLoad *)

\* JavaScript: x is truthy (neither null nor 0)
Truthy(x) == x # null /\ x # 0

\* x || 0
OrZero(x) == IF Truthy(x) THEN x ELSE 0

\* array.reduce((sum, l) => sum + l.usage.assumedWatts * l.usage.hoursPerDay, 0)
RECURSIVE SumDailyWh(_)
SumDailyWh(s) ==
    IF s = <<>> THEN 0
    ELSE Head(s).usage.assumedWatts * Head(s).usage.hoursPerDay
            + SumDailyWh(Tail(s))

\* array.reduce((max, l) => Math.max(max, l.motor.lra || 0), 0)
RECURSIVE LargestLRA(_)
LargestLRA(s) ==
    IF s = <<>> THEN 0
    ELSE Max(OrZero(Head(s).motor.lra), LargestLRA(Tail(s)))

\* array.reduce((max, l) => Math.max(max, l.usage.assumedWatts), 0)
RECURSIVE LargestWatts(_)
LargestWatts(s) ==
    IF s = <<>> THEN 0
    ELSE Max(Head(s).usage.assumedWatts, LargestWatts(Tail(s)))

isMotorLoad(l) == l.motor.isMotor

\* no id filter given
NullIds == {null}

calculatePracticalLoad(ls, includeLoadIds) ==
    LET inIds(l) == l.id \in includeLoadIds
        filteredLoads == IF includeLoadIds # NullIds THEN SelectSeq(ls, inIds) ELSE ls
        motorLoads == SelectSeq(filteredLoads, isMotorLoad)
    IN  [ totalRunningWatts |-> SumWatts(filteredLoads),     \* W
          totalDailyWh      |-> SumDailyWh(filteredLoads),   \* Wh
          largestMotorWatts |-> LargestWatts(motorLoads),
          largestMotorLRA   |-> LargestLRA(motorLoads),
          motorLoads        |-> Len(motorLoads) ]

----------------------------------------------------------------------------
(* Battery Sizing Engine: calculateBatterySizing                            *)
(*                                                                          *)
(* Units: power in W (continuousKW, totalKW, peak power), stored energy in  *)
(* Wh (usableKWh, totalKWh); the energy requirement, which is a product of  *)
(* watt-hours, quarter days and percents, in units of 1/400 Wh.             *)

\* a null / undefined string-valued field
NullString == "null"
Undefined == "undefined"

\* 1 Wh = 400 units of the energy requirement (backup days are counted in
\* quarters, the solar offset in percent)
EnergyUnit == 4 * 100

\* mutant of totalEnergyNeeded: the solar offset is not applied
totalEnergyNeeded_NoOffset(dailyWh, backupQ, solarOffsetPercent) ==
    Max(0, dailyWh * backupQ * 100)

\* totalEnergyNeededKWh, in 1/400 Wh; backupQ is backupDays in quarter days
totalEnergyNeeded(dailyWh, backupQ, solarOffsetPercent) ==
    LET e0 == dailyWh * backupQ * 100
        e1 == IF solarOffsetPercent > 0
              THEN dailyWh * backupQ * (100 - solarOffsetPercent)
              ELSE e0
    IN  Max(0, e1)

\* motorLoads.some(l => !l.motor.lra && l.motor.isMotor)
hasUnknownMotorLRA(motorLoads) ==
    \E i \in 1..Len(motorLoads) :
        ~Truthy(motorLoads[i].motor.lra) /\ motorLoads[i].motor.isMotor

checkFeasibility(count, maxUnits, label) ==
    IF count > maxUnits
    THEN [notFeasible |-> TRUE, reason |-> "Exceeds maximum configuration"]
    ELSE [notFeasible |-> FALSE, reason |-> Undefined]

\* Math.ceil(largestLRA / motorStartLRA) when largestLRA > 0, else 0
forMotor(largestLRA, motorStartLRA) ==
    IF largestLRA > 0 THEN MathCeil(largestLRA, motorStartLRA) ELSE 0

\* mutant of limitedBy: ties are resolved toward 'Power'
limitedBy_PowerFirst(forEnergy, forPower, forMotorStart) ==
    IF forPower >= forEnergy /\ forPower >= forMotorStart THEN "Power"
    ELSE IF forEnergy >= forMotorStart THEN "Energy" ELSE "Motor Start"

\* e10cLimitedBy, pw3OnlyLimitedBy: the binding constraint
limitedBy(forEnergy, forPower, forMotorStart) ==
    IF forEnergy >= forPower /\ forEnergy >= forMotorStart THEN "Energy"
    ELSE IF forPower >= forMotorStart THEN "Power" ELSE "Motor Start"

\* mutant of sizeEnphase5P: the count has no minimum of 1
sizeEnphase5P_NoMinimum(e5p, energy, peakW, unknownLRA) ==
    LET e5pForEnergy == MathCeil(energy, e5p.usableKWh * EnergyUnit)
        e5pForPower  == MathCeil(peakW, e5p.continuousKW)
        e5pCount     == Max(e5pForEnergy, e5pForPower)
        e5pFeasibility == checkFeasibility(e5pCount, e5p.maxUnits, "units")
    IN  [ count     |-> IF e5pFeasibility.notFeasible THEN e5pCount
                        ELSE Min(e5pCount, e5p.maxUnits),
          forEnergy |-> e5pForEnergy,
          forPower  |-> e5pForPower,
          totalKWh  |-> Min(e5pCount, e5p.maxUnits) * e5p.usableKWh,
          totalKW   |-> Min(e5pCount, e5p.maxUnits) * e5p.continuousKW,
          limitedBy |-> IF e5pForEnergy >= e5pForPower THEN "Energy" ELSE "Power",
          motorStartWarning |->
              IF unknownLRA
              THEN "Motor start capability not rated for 5P. Verify with Enphase."
              ELSE NullString,
          notFeasible |-> e5pFeasibility.notFeasible,
          reason      |-> e5pFeasibility.reason ]

\* Enphase 5P
sizeEnphase5P(e5p, energy, peakW, unknownLRA) ==
    LET e5pForEnergy == MathCeil(energy, e5p.usableKWh * EnergyUnit)
        e5pForPower  == MathCeil(peakW, e5p.continuousKW)
        e5pCount     == Max(Max(e5pForEnergy, e5pForPower), 1)
        e5pFeasibility == checkFeasibility(e5pCount, e5p.maxUnits, "units")
    IN  [ count     |-> IF e5pFeasibility.notFeasible THEN e5pCount
                        ELSE Min(e5pCount, e5p.maxUnits),
          forEnergy |-> e5pForEnergy,
          forPower  |-> e5pForPower,
          totalKWh  |-> Min(e5pCount, e5p.maxUnits) * e5p.usableKWh,
          totalKW   |-> Min(e5pCount, e5p.maxUnits) * e5p.continuousKW,
          limitedBy |-> IF e5pForEnergy >= e5pForPower THEN "Energy" ELSE "Power",
          motorStartWarning |->
              IF unknownLRA
              THEN "Motor start capability not rated for 5P. Verify with Enphase."
              ELSE NullString,
          notFeasible |-> e5pFeasibility.notFeasible,
          reason      |-> e5pFeasibility.reason ]

\* Enphase 10C
sizeEnphase10C(e10c, energy, peakW, largestLRA, unknownLRA) ==
    LET e10cForEnergy == MathCeil(energy, e10c.usableKWh * EnergyUnit)
        e10cForPower  == MathCeil(peakW, e10c.continuousKW)
        e10cForMotor  == forMotor(largestLRA, e10c.motorStartLRA)
        e10cCount     == Max(Max(e10cForEnergy, e10cForPower), Max(e10cForMotor, 1))
        e10cFeasibility == checkFeasibility(e10cCount, e10c.maxUnits, "units")
    IN  [ count     |-> IF e10cFeasibility.notFeasible THEN e10cCount
                        ELSE Min(e10cCount, e10c.maxUnits),
          forEnergy |-> e10cForEnergy,
          forPower  |-> e10cForPower,
          forMotorStart |-> e10cForMotor,
          totalKWh  |-> Min(e10cCount, e10c.maxUnits) * e10c.usableKWh,
          totalKW   |-> Min(e10cCount, e10c.maxUnits) * e10c.continuousKW,
          limitedBy |-> limitedBy(e10cForEnergy, e10cForPower, e10cForMotor),
          motorStartWarning |->
              IF unknownLRA
              THEN "Some motor loads have unknown LRA. Conservative estimates applied."
              ELSE NullString,
          notFeasible |-> e10cFeasibility.notFeasible,
          reason      |-> e10cFeasibility.reason ]

\* mutant of sizeEnphaseMixed: the energy contributed by the 10C units is
\* not deducted before the 5P units are counted
sizeEnphaseMixed_NoDeduction(e5p, e10c, energy, peakW, largestLRA) ==
    LET e10cForPower == MathCeil(peakW, e10c.continuousKW)
        e10cForMotor == forMotor(largestLRA, e10c.motorStartLRA)
        mixedPowerUnits10C == Max(Max(e10cForPower, e10cForMotor), 1)
        remainingEnergy == Max(0, energy)
        additional5P == IF remainingEnergy > 0
                        THEN MathCeil(remainingEnergy, e5p.usableKWh * EnergyUnit)
                        ELSE 0
        mixedTotal == mixedPowerUnits10C + additional5P
        mixedFeasible == mixedTotal <= e10c.maxUnits + e5p.maxUnits
    IN  [ count10C   |-> mixedPowerUnits10C,
          count5P    |-> additional5P,
          totalUnits |-> mixedTotal,
          totalKWh   |-> mixedPowerUnits10C * e10c.usableKWh
                            + additional5P * e5p.usableKWh,
          totalKW    |-> mixedPowerUnits10C * e10c.continuousKW
                            + additional5P * e5p.continuousKW,
          notFeasible |-> ~mixedFeasible,
          reason |-> IF ~mixedFeasible THEN "Exceeds maximum combined unit count"
                     ELSE Undefined ]

\* Enphase Mixed
sizeEnphaseMixed(e5p, e10c, energy, peakW, largestLRA) ==
    LET e10cForPower == MathCeil(peakW, e10c.continuousKW)
        e10cForMotor == forMotor(largestLRA, e10c.motorStartLRA)
        mixedPowerUnits10C == Max(Max(e10cForPower, e10cForMotor), 1)
        mixedEnergyFrom10C == mixedPowerUnits10C * e10c.usableKWh * EnergyUnit
        remainingEnergy == Max(0, energy - mixedEnergyFrom10C)
        additional5P == IF remainingEnergy > 0
                        THEN MathCeil(remainingEnergy, e5p.usableKWh * EnergyUnit)
                        ELSE 0
        mixedTotal == mixedPowerUnits10C + additional5P
        mixedFeasible == mixedTotal <= e10c.maxUnits + e5p.maxUnits
    IN  [ count10C   |-> mixedPowerUnits10C,
          count5P    |-> additional5P,
          totalUnits |-> mixedTotal,
          totalKWh   |-> mixedPowerUnits10C * e10c.usableKWh
                            + additional5P * e5p.usableKWh,
          totalKW    |-> mixedPowerUnits10C * e10c.continuousKW
                            + additional5P * e5p.continuousKW,
          notFeasible |-> ~mixedFeasible,
          reason |-> IF ~mixedFeasible THEN "Exceeds maximum combined unit count"
                     ELSE Undefined ]

\* mutant of pw3LeadersCapped: the leader count is not capped at maxLeaders
pw3LeadersCapped_NoCap(pw3, peakW, largestLRA) ==
    LET pw3ForPower == MathCeil(peakW, pw3.continuousKW)
        pw3ForMotor == forMotor(largestLRA, pw3.motorStartLRA)
    IN  Max(Max(pw3ForPower, pw3ForMotor), 1)

\* pw3LeadersCapped: leaders for power and motor start, capped at maxLeaders
pw3LeadersCapped(pw3, peakW, largestLRA) ==
    LET pw3ForPower == MathCeil(peakW, pw3.continuousKW)
        pw3ForMotor == forMotor(largestLRA, pw3.motorStartLRA)
        pw3Leaders  == Max(Max(pw3ForPower, pw3ForMotor), 1)
    IN  Min(pw3Leaders, pw3.maxLeaders)

\* Tesla PW3 only (no expansions)
sizeTeslaPW3Only(pw3, energy, peakW, largestLRA, unknownLRA) ==
    LET pw3ForPower == MathCeil(peakW, pw3.continuousKW)
        pw3ForMotor == forMotor(largestLRA, pw3.motorStartLRA)
        pw3OnlyForEnergy == MathCeil(energy, pw3.usableKWh * EnergyUnit)
        pw3OnlyCount == Max(pw3OnlyForEnergy, pw3LeadersCapped(pw3, peakW, largestLRA))
        pw3OnlyFeasibility == checkFeasibility(pw3OnlyCount, pw3.maxLeaders, "PW3")
        pw3OnlyCapped == Min(pw3OnlyCount, pw3.maxLeaders)
    IN  [ count     |-> IF pw3OnlyFeasibility.notFeasible THEN pw3OnlyCount
                        ELSE pw3OnlyCapped,
          forEnergy |-> pw3OnlyForEnergy,
          forPower  |-> pw3ForPower,
          forMotorStart |-> pw3ForMotor,
          totalKWh  |-> pw3OnlyCapped * pw3.usableKWh,
          totalKW   |-> pw3OnlyCapped * pw3.continuousKW,
          limitedBy |-> limitedBy(pw3OnlyForEnergy, pw3ForPower, pw3ForMotor),
          motorStartWarning |->
              IF unknownLRA
              THEN "Some motor loads have unknown LRA. Conservative estimates applied."
              ELSE NullString,
          notFeasible |-> pw3OnlyFeasibility.notFeasible,
          reason      |-> pw3OnlyFeasibility.reason ]

\* Tesla PW3 + Expansions
sizeTeslaPW3WithExpansions(pw3, pw3exp, energy, peakW, largestLRA) ==
    LET leaders == pw3LeadersCapped(pw3, peakW, largestLRA)
        leaderEnergyKWh == leaders * pw3.usableKWh * EnergyUnit
        remainingEnergyTesla == Max(0, energy - leaderEnergyKWh)
        expansionsNeeded == IF remainingEnergyTesla > 0
                            THEN MathCeil(remainingEnergyTesla,
                                          pw3exp.usableKWh * EnergyUnit)
                            ELSE 0
        maxExpansions == leaders * pw3exp.maxPerLeader
        expansionsCapped == Min(expansionsNeeded, maxExpansions)
        teslaExceedsMax == expansionsNeeded > maxExpansions
    IN  [ leaders    |-> leaders,
          expansions |-> expansionsCapped,
          totalUnits |-> leaders + expansionsCapped,
          totalKWh   |-> leaders * pw3.usableKWh
                            + expansionsCapped * pw3exp.usableKWh,
          totalKW    |-> leaders * pw3.continuousKW,
          exceedsMax |-> teslaExceedsMax,
          notFeasible |-> teslaExceedsMax,
          reason |-> IF teslaExceedsMax THEN "Needs more expansions than max"
                     ELSE Undefined ]

\* mutant of batteryLoads: the includeInBatteryCalc flag is also required of
\* the loads named by includeLoadIds
batteryLoads_FlagAlways(ls, opts) ==
    LET keep(l) == /\ l.usage.includeInBatteryCalc
                   /\ opts.includeLoadIds # NullIds => l.id \in opts.includeLoadIds
        selected == SelectSeq(ls, keep) \o opts.proposedEVLoads
        sel == opts.partialSelections
    IN  [ i \in 1..Len(selected) |->
            IF selected[i].id \in DOMAIN sel
            THEN [selected[i] EXCEPT !.usage.hoursPerDay = sel[selected[i].id].hoursPerDay]
            ELSE selected[i] ]

\* the loads sized: id filter or includeInBatteryCalc, proposed EV loads
\* appended, partial-home hours applied
batteryLoads(ls, opts) ==
    LET keep(l) == IF opts.includeLoadIds # NullIds
                   THEN l.id \in opts.includeLoadIds
                   ELSE l.usage.includeInBatteryCalc
        selected == SelectSeq(ls, keep) \o opts.proposedEVLoads
        sel == opts.partialSelections
    IN  [ i \in 1..Len(selected) |->
            IF selected[i].id \in DOMAIN sel
            THEN [selected[i] EXCEPT !.usage.hoursPerDay = sel[selected[i].id].hoursPerDay]
            ELSE selected[i] ]

\* mutant of sizingRequirements: the solar offset also reduces peak power
sizingRequirements_OffsetOnPower(filteredLoads, backupQ, solarOffsetPercent) ==
    LET practicalLoad == calculatePracticalLoad(filteredLoads, NullIds)
        motorLoads == SelectSeq(filteredLoads, isMotorLoad)
    IN  [ energy |-> totalEnergyNeeded(practicalLoad.totalDailyWh, backupQ,
                                       solarOffsetPercent),
          peakW  |-> (practicalLoad.totalRunningWatts
                        * (100 - solarOffsetPercent)) \div 100,
          largestLRA |-> LargestLRA(motorLoads),
          unknownLRA |-> hasUnknownMotorLRA(motorLoads) ]

\* the three requirements derived from the sized loads: energy (1/400 Wh),
\* peak power (W), largest LRA, and whether a motor has no LRA
sizingRequirements(filteredLoads, backupQ, solarOffsetPercent) ==
    LET practicalLoad == calculatePracticalLoad(filteredLoads, NullIds)
        motorLoads == SelectSeq(filteredLoads, isMotorLoad)
    IN  [ energy |-> totalEnergyNeeded(practicalLoad.totalDailyWh, backupQ,
                                       solarOffsetPercent),
          peakW  |-> practicalLoad.totalRunningWatts,
          largestLRA |-> LargestLRA(motorLoads),
          unknownLRA |-> hasUnknownMotorLRA(motorLoads) ]

calculateBatterySizing(ls, backupQ, opts, BATTERY_SPECS) ==
    LET filteredLoads == batteryLoads(ls, opts)
        req == sizingRequirements(filteredLoads, backupQ, opts.solarOffsetPercent)
        energy == req.energy
        peakW == req.peakW
        largestLRA == req.largestLRA
        unknownLRA == req.unknownLRA
        e5p == BATTERY_SPECS.enphase5P
        e10c == BATTERY_SPECS.enphase10C
        pw3 == BATTERY_SPECS.teslaPW3
        pw3exp == BATTERY_SPECS.teslaPW3Expansion
    IN  [ enphase5P  |-> sizeEnphase5P(e5p, energy, peakW, unknownLRA),
          enphase10C |-> sizeEnphase10C(e10c, energy, peakW, largestLRA, unknownLRA),
          enphase_mixed |-> sizeEnphaseMixed(e5p, e10c, energy, peakW, largestLRA),
          teslaPW3Only |-> sizeTeslaPW3Only(pw3, energy, peakW, largestLRA, unknownLRA),
          teslaPW3WithExpansions |->
              sizeTeslaPW3WithExpansions(pw3, pw3exp, energy, peakW, largestLRA),
          summary |->
            [ \* Math.round(x * 10) / 10, in tenths of a kWh and of a kW
              totalEnergyNeededKWh |-> MathRound(energy, EnergyUnit * 100),
              peakPowerKW |-> MathRound(peakW, 100),
              backupDays |-> backupQ,
              solarOffsetPercent |-> opts.solarOffsetPercent,
              loadCount |-> Len(filteredLoads),
              largestLRA |-> largestLRA,
              hasUnknownMotorLRA |-> unknownLRA ] ]

----------------------------------------------------------------------------
(* Panel Slot Accountant: calculatePanelSlots, calculateModeledSlots *)

\* tandem-capable slots of a panel
tandemCapableSlots(p) ==
    IF p.tandemsAllowed = "Allowed"
    THEN CASE p.tandemPolicy.allowedPositions = "All slots" -> p.totalSlots
           [] p.tandemPolicy.allowedPositions = "Bottom half only"
                -> p.totalSlots \div 2
           [] p.tandemPolicy.allowedPositions = "Custom"
                -> OrZero(p.tandemPolicy.customMaxTandemSlots)
           [] OTHER -> 0
    ELSE 0

\* availableSlots of calculatePanelSlots
availableSlots(p) == p.totalSlots - p.usedSlots

calculatePanelSlots(p) ==
    [ availableSlots     |-> availableSlots(p),
      tandemCapableSlots |-> tandemCapableSlots(p),
      canFreeSlotsWithTandems |->
          p.tandemsAllowed = "Allowed" /\ tandemCapableSlots(p) > 0 ]

\* mutant of modeledSlotsOf: every load takes one slot
modeledSlotsOf_AlwaysOne(l) == 1

\* slots of one load
modeledSlotsOf(l) ==
    IF l.breaker.type = "Tandem" THEN 1
    ELSE IF l.breaker.poles = 2 THEN 2 ELSE 1

RECURSIVE calculateModeledSlots(_)
calculateModeledSlots(ls) ==
    IF ls = <<>> THEN 0
    ELSE modeledSlotsOf(Head(ls)) + calculateModeledSlots(Tail(ls))

\* Step 1: physical slots still available after regular + tandem breakers
step1TotalAvailableSlots(p) ==
    Max(0, p.totalSlots - (p.usedSlots + OrZero(p.tandemSlotsUsed)))

----------------------------------------------------------------------------
(* EV Feasibility Evaluator: calculateEVFeasibility *)

\* the result null
NullResult == [isNull |-> TRUE]

\* the synthetic load of one proposed charger
evSyntheticLoad(evWattsEach) ==
    [ category |-> CatEV,
      usage    |-> [assumedWatts |-> evWattsEach, includeInServiceCalc |-> TRUE],
      breaker  |-> [poles |-> 2],
      motor    |-> [isMotor |-> FALSE] ]

\* mutant of recommendation: the space tiers are tried before the service
\* capacity tier
recommendation_SpaceFirst(status, hasSpace, canFreeSlotsWithTandems) ==
    IF ~hasSpace /\ ~canFreeSlotsWithTandems THEN "Subpanel recommended"
    ELSE IF ~hasSpace /\ canFreeSlotsWithTandems
         THEN "Requires tandems to free space"
    ELSE IF status = "Undersized" THEN "Service upgrade recommended"
    ELSE IF status = "Borderline" THEN "Feasible but borderline capacity"
    ELSE "Add as-is"

\* the recommendation tier
recommendation(status, hasSpace, canFreeSlotsWithTandems) ==
    IF status = "Undersized" THEN "Service upgrade recommended"
    ELSE IF ~hasSpace /\ ~canFreeSlotsWithTandems THEN "Subpanel recommended"
    ELSE IF ~hasSpace /\ canFreeSlotsWithTandems
         THEN "Requires tandems to free space"
    ELSE IF status = "Borderline" THEN "Feasible but borderline capacity"
    ELSE "Add as-is"

\* project.ev.chargerOption is <<>> (null) or <<option>>
calculateEVFeasibility(ls, svc, pnl, e) ==
    IF e.chargerOption = <<>> THEN NullResult
    ELSE
    LET charger == e.chargerOption[1]
        continuousAmps == IF charger.isCustom THEN OrZero(e.customContinuousAmps)
                          ELSE charger.continuousAmps
        \* Math.ceil(continuousAmps * 1.25 / 5) * 5
        breakerAmps == IF charger.isCustom THEN MathCeil(continuousAmps, 4) * 5
                       ELSE charger.recommendedBreakerAmps
        count == IF Truthy(e.chargerCount) THEN e.chargerCount ELSE 1
        evWattsEach == continuousAmps * svc.serviceVoltage
        evWattsTotal == evWattsEach * count
        necResult == calculateNECOptionalMethod(ls, svc, 0)
        evSyntheticLoads == [i \in 1..count |-> evSyntheticLoad(evWattsEach)]
        necWithEV == calculateNECOptionalMethod(ls \o evSyntheticLoads, svc, 0)
        modeledUsedSlots == IF Len(ls) > 0 THEN calculateModeledSlots(ls)
                            ELSE pnl.usedSlots
        computedAvailableSlots == Max(0, pnl.totalSlots - modeledUsedSlots)
        slots == calculatePanelSlots(pnl)
        slotsNeeded == 2 * count
        hasSpace == computedAvailableSlots >= slotsNeeded
    IN  [ continuousAmps |-> continuousAmps,
          breakerAmps    |-> breakerAmps,
          evWattsEach    |-> evWattsEach,
          evWattsTotal   |-> evWattsTotal,
          evWatts        |-> evWattsTotal,
          chargerCount   |-> count,
          slotsNeeded    |-> slotsNeeded,
          hasSpace       |-> hasSpace,
          canUseTandems  |-> slots.canFreeSlotsWithTandems,
          necWithoutEV   |-> necResult,
          necWithEV      |-> necWithEV,
          recommendation |-> recommendation(necWithEV.status, hasSpace,
                                            slots.canFreeSlotsWithTandems),
          availableSlots |-> computedAvailableSlots ]

----------------------------------------------------------------------------
(* Inputs of the NEC Demand Estimator, drawn from small sets *)

\* the categories in a fixed order; load lists are enumerated with their
\* categories in this order
NECCategories ==
    <<CatLighting, CatOther, CatEV, CatWaterHeater, CatRange, CatCooktop,
      CatDryer, CatACCondenser, CatFurnace>>

CatIndex(c) == CHOOSE k \in 1..Len(NECCategories) : NECCategories[k] = c

\* the assumedWatts values tried for each category
WattsOf(c) ==
    CASE c = CatLighting    -> {0, 100}
      [] c = CatOther       -> {1500, 9000}
      [] c = CatEV          -> {4800}
      [] c = CatWaterHeater -> {4500}
      [] c = CatRange       -> {12000, 12001}
      [] c = CatCooktop     -> {6000}
      [] c = CatDryer       -> {3000}
      [] c = CatACCondenser -> {3500}
      [] c = CatFurnace     -> {5000}

Services ==
    { [serviceVoltage |-> 240, mainBreakerAmps |-> 100],
      [serviceVoltage |-> 240, mainBreakerAmps |-> 200] }

SquareFootages == {0, 2000}

----------------------------------------------------------------------------
(* Inputs of the Battery Sizing Engine, drawn from small sets *)

\* battery product tables: capacities in Wh, continuous power in W
BatterySpecTables ==
    { [ enphase5P  |-> [usableKWh |-> 5000, continuousKW |-> 3840, maxUnits |-> 4],
        enphase10C |-> [usableKWh |-> 10000, continuousKW |-> 7080,
                        motorStartLRA |-> 90, maxUnits |-> 4],
        teslaPW3   |-> [usableKWh |-> 13500, continuousKW |-> 11500,
                        motorStartLRA |-> 185, maxLeaders |-> 4],
        teslaPW3Expansion |-> [usableKWh |-> 13500, maxPerLeader |-> 3] ],
      [ enphase5P  |-> [usableKWh |-> 5000, continuousKW |-> 3000, maxUnits |-> 2],
        enphase10C |-> [usableKWh |-> 10000, continuousKW |-> 6000,
                        motorStartLRA |-> 50, maxUnits |-> 2],
        teslaPW3   |-> [usableKWh |-> 12000, continuousKW |-> 10000,
                        motorStartLRA |-> 150, maxLeaders |-> 1],
        teslaPW3Expansion |-> [usableKWh |-> 12000, maxPerLeader |-> 1] ] }

\* the loads tried: <<assumedWatts, hoursPerDay, isMotor, lra>>
BatteryLoadTypes ==
    << <<0, 4, FALSE, null>>,
       <<1000, 24, FALSE, null>>,
       <<12000, 1, FALSE, null>>,
       <<3500, 8, TRUE, null>>,
       <<3500, 8, TRUE, 100>>,
       <<1500, 6, TRUE, 200>> >>

TypeOfLoad(l) ==
    CHOOSE k \in 1..Len(BatteryLoadTypes) :
        BatteryLoadTypes[k] = <<l.usage.assumedWatts, l.usage.hoursPerDay,
                                l.motor.isMotor, l.motor.lra>>

\* backup durations in quarter days: 0.25, 1 and 3 days
BackupDurations == {1, 4, 12}

SolarOffsets == {0, 50, 100}

DefaultOptions ==
    [ includeLoadIds     |-> NullIds,
      solarOffsetPercent |-> 0,
      proposedEVLoads    |-> <<>>,
      partialSelections  |-> <<>> ]

\* the variables of the other components keep an idle value
NecIdle ==
    /\ service = [serviceVoltage |-> 240, mainBreakerAmps |-> 200]
    /\ sqFt = 0
    /\ nec = [status |-> "not computed"]

BattIdle ==
    /\ backupDays = 4
    /\ options = DefaultOptions
    /\ specs = [name |-> "not used"]
    /\ batt = [summary |-> "not computed"]
    /\ practical = [motorLoads |-> 0]

EvIdle ==
    /\ panel = [totalSlots |-> 40]
    /\ ev = [chargerOption |-> <<>>]
    /\ evf = NullResult
    /\ panelSlots = [availableSlots |-> 0]
    /\ modeledSlots = 0
    /\ totalAvailableSlots = 0

UiIdle ==
    /\ tandemOverride = 0
    /\ nextLoadId = 1
    /\ now = 0
    /\ partialHome = [enabled |-> FALSE, selections |-> <<>>]
    /\ currentStep = 0

----------------------------------------------------------------------------
(* Specification SpecBattery: the Battery Sizing Engine applied to a        *)
(* project whose loads, backup duration and solar offset are edited; the    *)
(* sizing is re-derived after every edit.                                   *)

InitBattery ==
    /\ loads = <<>>
    /\ backupDays \in BackupDurations
    /\ options = DefaultOptions
    /\ specs \in BatterySpecTables
    /\ batt = calculateBatterySizing(loads, backupDays, options, specs)
    /\ practical = calculatePracticalLoad(loads, NullIds)
    /\ NecIdle
    /\ EvIdle
    /\ UiIdle

\* a load of type k is appended to the list
BattAddLoad(k) ==
    /\ Len(loads) < MaxLoads
    /\ IF loads = <<>> THEN TRUE ELSE TypeOfLoad(loads[Len(loads)]) <= k
    /\ LET t == BatteryLoadTypes[k]
       IN  loads' = Append(loads,
               createLoadEntry(Len(loads) + 1, CatOther, t[1], t[2], t[3], t[4],
                               1, "Standard"))
    /\ batt' = calculateBatterySizing(loads', backupDays, options, specs)
    /\ practical' = calculatePracticalLoad(loads', NullIds)
    /\ UNCHANGED <<backupDays, options, specs, necVars, evVars, uiVars>>

\* the solar offset is set to p percent
SetSolarOffset(p) ==
    /\ p # options.solarOffsetPercent
    /\ options' = [options EXCEPT !.solarOffsetPercent = p]
    /\ batt' = calculateBatterySizing(loads, backupDays, options', specs)
    /\ UNCHANGED <<loads, backupDays, specs, practical, necVars, evVars, uiVars>>

NextBattery ==
    \/ \E k \in 1..Len(BatteryLoadTypes) : BattAddLoad(k)
    \/ \E p \in SolarOffsets : SetSolarOffset(p)

SpecBattery == InitBattery /\ [][NextBattery]_vars

----------------------------------------------------------------------------
(* Specification SpecSelection: the options of calculateBatterySizing that  *)
(* select the loads to size (includeLoadIds, proposedEVLoads,               *)
(* partialSelections) and the includeInBatteryCalc flag of the loads are    *)
(* edited; the sizing is re-derived after every edit.                       *)

\* the loads of the project: <<assumedWatts, hoursPerDay, isMotor, lra>>
SelectionLoads ==
    << <<1000, 24, FALSE, null>>, <<3500, 8, TRUE, 100>>, <<1500, 6, TRUE, 200>> >>

\* the id `_proposedEV_${i}` of a proposed charger; load ids are numbers here
proposedEVId(i) == 1000 + i

\* one synthetic load of proposedEVLoads (48 A continuous at 240 V)
proposedEVLoad(i) ==
    [ id       |-> proposedEVId(i),
      category |-> CatEV,
      breaker  |-> [poles |-> 2, amps |-> 60, type |-> "Standard"],
      usage    |-> [assumedWatts |-> 48 * 240, hoursPerDay |-> 4,
                    includeInBatteryCalc |-> TRUE],
      motor    |-> [isMotor |-> FALSE, lra |-> null] ]

\* the ids that includeLoadIds and partialSelections may name
SelectionIds == 1..Len(SelectionLoads)

\* the hours of a partial-home selection entry
PartialHours == {2}

InitSelection ==
    /\ loads = [ i \in 1..Len(SelectionLoads) |->
                   createLoadEntry(i, CatOther, SelectionLoads[i][1],
                                   SelectionLoads[i][2], SelectionLoads[i][3],
                                   SelectionLoads[i][4], 1, "Standard") ]
    /\ backupDays = 4
    /\ options = DefaultOptions
    /\ specs \in BatterySpecTables
    /\ batt = calculateBatterySizing(loads, backupDays, options, specs)
    /\ practical = calculatePracticalLoad(loads, NullIds)
    /\ NecIdle
    /\ EvIdle
    /\ UiIdle

\* updateLoad(id, 'usage.includeInBatteryCalc', value)
updateIncludeInBatteryCalc(i, value) ==
    /\ loads[i].usage.includeInBatteryCalc # value
    /\ loads' = [loads EXCEPT ![i].usage.includeInBatteryCalc = value]
    /\ batt' = calculateBatterySizing(loads', backupDays, options, specs)
    /\ practical' = calculatePracticalLoad(loads', NullIds)
    /\ UNCHANGED <<backupDays, options, specs, necVars, evVars, uiVars>>

\* the sizing is called with another value of one option
SelectionOption(field, value) ==
    /\ options[field] # value
    /\ options' = [options EXCEPT ![field] = value]
    /\ batt' = calculateBatterySizing(loads, backupDays, options', specs)
    /\ UNCHANGED <<loads, backupDays, specs, practical, necVars, evVars, uiVars>>

\* options.includeLoadIds is null or a list of ids
setIncludeLoadIds(ids) == SelectionOption("includeLoadIds", ids)

\* options.proposedEVLoads is null (here: empty) or the loads of n chargers
setProposedEVLoads(n) ==
    SelectionOption("proposedEVLoads", [i \in 1..n |-> proposedEVLoad(i)])

\* options.partialSelections gets an entry for id with hoursPerDay h
setPartialSelection(id, h) ==
    LET sel == options.partialSelections
    IN  SelectionOption("partialSelections",
            [ x \in DOMAIN sel \cup {id} |->
                IF x = id THEN [hoursPerDay |-> h] ELSE sel[x] ])

NextSelection ==
    \/ \E i \in 1..Len(loads), b \in BOOLEAN : updateIncludeInBatteryCalc(i, b)
    \/ \E ids \in {NullIds} \cup SUBSET SelectionIds : setIncludeLoadIds(ids)
    \/ \E n \in 0..MaxChargers : setProposedEVLoads(n)
    \/ \E id \in SelectionIds \cup {proposedEVId(1)}, h \in PartialHours :
          setPartialSelection(id, h)

SpecSelection == InitSelection /\ [][NextSelection]_vars

----------------------------------------------------------------------------
(* Inputs of the EV Feasibility Evaluator and of the Panel Slot Accountant  *)

\* <<category, assumedWatts, poles, breaker type>> of the loads of a project
EVLoadLists ==
    { <<>>,
      << <<CatOther, 1500, 1, "Standard">> >>,
      << <<CatRange, 9000, 2, "Standard">>, <<CatWaterHeater, 4500, 2, "Standard">>,
         <<CatACCondenser, 3500, 2, "Standard">>, <<CatOther, 500, 1, "Tandem">> >> }

loadsOfList(list) ==
    [ i \in 1..Len(list) |->
        createLoadEntry(i, list[i][1], list[i][2], 4, FALSE, null,
                        list[i][3], list[i][4]) ]

EVChargerOptions ==
    { [label |-> "Level 2 - 48A", isCustom |-> FALSE, continuousAmps |-> 48,
       recommendedBreakerAmps |-> 60],
      [label |-> "Custom", isCustom |-> TRUE, continuousAmps |-> 0,
       recommendedBreakerAmps |-> 0] }

CustomAmpsChoices == {0, 24}

TotalSlotsChoices == {8, 40}
UsedSlotsChoices == {0, 45}
TandemSlotsUsedChoices == {0, 3}
TandemsAllowedChoices == {"Allowed", "Not allowed", "Unknown"}
AllowedPositionsChoices == {"All slots", "Bottom half only", "Custom"}
CustomMaxTandemChoices == {0, 2}

InitialPanel ==
    [ totalSlots |-> 40, usedSlots |-> 0, tandemSlotsUsed |-> 0,
      tandemsAllowed |-> "Unknown",
      tandemPolicy |-> [allowedPositions |-> "All slots",
                        customMaxTandemSlots |-> 0] ]

InitialEV ==
    [chargerOption |-> <<>>, customContinuousAmps |-> 0, chargerCount |-> 1]

----------------------------------------------------------------------------
(* Specification SpecEV: the panel and EV settings of a project are edited  *)
(* (Step 1, Step 4); the slot figures and the EV feasibility are re-derived *)
(* after every edit.                                                        *)

InitEV ==
    /\ \E list \in EVLoadLists : loads = loadsOfList(list)
    /\ service \in Services
    /\ sqFt = 0
    /\ nec = calculateNECOptionalMethod(loads, service, sqFt)
    /\ panel = InitialPanel
    /\ ev = InitialEV
    /\ evf = calculateEVFeasibility(loads, service, panel, ev)
    /\ panelSlots = calculatePanelSlots(panel)
    /\ modeledSlots = calculateModeledSlots(loads)
    /\ totalAvailableSlots = step1TotalAvailableSlots(panel)
    /\ BattIdle
    /\ UiIdle

\* the derived values after the project changed
EvDerived ==
    /\ evf' = calculateEVFeasibility(loads', service', panel', ev')
    /\ panelSlots' = calculatePanelSlots(panel')
    /\ modeledSlots' = calculateModeledSlots(loads')
    /\ totalAvailableSlots' = step1TotalAvailableSlots(panel')

\* Step 1: updatePanel(field, value)
updatePanel(field, value) ==
    /\ panel[field] # value
    /\ panel' = [panel EXCEPT ![field] = value]
    /\ UNCHANGED <<loads, necVars, battVars, ev, uiVars>>
    /\ EvDerived

\* Step 1: updateTandemPolicy(field, value)
updateTandemPolicy(field, value) ==
    /\ panel.tandemPolicy[field] # value
    /\ panel' = [panel EXCEPT !.tandemPolicy[field] = value]
    /\ UNCHANGED <<loads, necVars, battVars, ev, uiVars>>
    /\ EvDerived

\* Step 4: selectCharger(option), and the 'No EV Charger' card (<<>>)
selectCharger(option) ==
    /\ ev.chargerOption # option
    /\ ev' = [ev EXCEPT !.chargerOption = option]
    /\ UNCHANGED <<loads, necVars, battVars, panel, uiVars>>
    /\ EvDerived

\* Step 4: setCustomAmps(amps)
setCustomAmps(amps) ==
    /\ ev.customContinuousAmps # amps
    /\ ev' = [ev EXCEPT !.customContinuousAmps = amps]
    /\ UNCHANGED <<loads, necVars, battVars, panel, uiVars>>
    /\ EvDerived

\* Step 4: setChargerCount(count)
setChargerCount(count) ==
    /\ ev.chargerCount # Max(1, Min(4, count))
    /\ ev' = [ev EXCEPT !.chargerCount = Max(1, Min(4, count))]
    /\ UNCHANGED <<loads, necVars, battVars, panel, uiVars>>
    /\ EvDerived

NextEV ==
    \/ \E v \in TotalSlotsChoices : updatePanel("totalSlots", Max(2, v))
    \/ \E v \in UsedSlotsChoices : updatePanel("usedSlots", Max(0, v))
    \/ \E v \in TandemSlotsUsedChoices : updatePanel("tandemSlotsUsed", Max(0, v))
    \/ \E v \in TandemsAllowedChoices : updatePanel("tandemsAllowed", v)
    \/ \E v \in AllowedPositionsChoices : updateTandemPolicy("allowedPositions", v)
    \/ \E v \in CustomMaxTandemChoices : updateTandemPolicy("customMaxTandemSlots", v)
    \/ \E o \in EVChargerOptions : selectCharger(<<o>>)
    \/ selectCharger(<<>>)
    \/ \E a \in CustomAmpsChoices : setCustomAmps(a)
    \/ \E c \in 0..MaxChargers : setChargerCount(c)

SpecEV == InitEV /\ [][NextEV]_vars

----------------------------------------------------------------------------
(* Specification Spec: the NEC Demand Estimator applied to a project whose  *)
(* load list is edited; the result is re-derived after every edit.          *)

Init ==
    /\ loads = <<>>
    /\ service \in Services
    /\ sqFt \in SquareFootages
    /\ nec = calculateNECOptionalMethod(loads, service, sqFt)
    /\ BattIdle
    /\ EvIdle
    /\ UiIdle

\* a load of category c and w watts is appended to the list
NecAddLoad(c, w) ==
    /\ Len(loads) < MaxLoads
    /\ IF loads = <<>> THEN TRUE
       ELSE CatIndex(loads[Len(loads)].category) <= CatIndex(c)
    /\ loads' = Append(loads,
                  createLoadEntry(Len(loads) + 1, c, w, 4, FALSE, null, 1, "Standard"))
    /\ nec' = calculateNECOptionalMethod(loads', service, sqFt)
    /\ UNCHANGED <<service, sqFt, battVars, evVars, uiVars>>

\* the assumedWatts of load i is set to w
NecSetWatts(i, w) ==
    /\ w # loads[i].usage.assumedWatts
    /\ loads' = [loads EXCEPT ![i].usage.assumedWatts = w]
    /\ nec' = calculateNECOptionalMethod(loads', service, sqFt)
    /\ UNCHANGED <<service, sqFt, battVars, evVars, uiVars>>

Next ==
    \/ \E k \in 1..Len(NECCategories) :
         \E w \in WattsOf(NECCategories[k]) : NecAddLoad(NECCategories[k], w)
    \/ \E i \in 1..Len(loads) :
         \E w \in WattsOf(loads[i].category) : NecSetWatts(i, w)

Spec == Init /\ [][Next]_vars

----------------------------------------------------------------------------
(* Specification SpecGeneral: the NEC Demand Estimator applied to projects  *)
(* whose general-lighting loads are edited around the 10,000 VA threshold   *)
(* of the general total.                                                    *)

\* the assumedWatts tried for a general-lighting load: with the 4500 VA of
\* small-appliance and laundry, 5500 W is a general total of exactly 10,000
GeneralLightingWatts == {0, 100, 5500, 5501}

NextGeneral ==
    \/ \E w \in GeneralLightingWatts : NecAddLoad(CatLighting, w)
    \/ NecAddLoad(CatOther, 1500)
    \/ \E i \in 1..Len(loads) :
         \E w \in GeneralLightingWatts :
            loads[i].category = CatLighting /\ NecSetWatts(i, w)

SpecGeneral == Init /\ [][NextGeneral]_vars

----------------------------------------------------------------------------
(* Claims about the NEC Demand Estimator *)

\* the demand bucket of each category name
BucketOfCategory(c) ==
    CASE c \in {CatDishwasher, CatDisposal, CatMicrowave, CatWasher,
                CatWaterHeater, CatDehumid}              -> "fixed"
      [] c \in {CatRange, CatCooktop}                    -> "cooking"
      [] c = CatDryer                                    -> "dryer"
      [] c \in {CatACCondenser, CatHeatPump, CatAirHandler} -> "cooling"
      [] c \in {CatFurnace, CatBoiler}                   -> "heating"
      [] c = CatLighting                                 -> "lighting"
      [] c = CatEV                                       -> "ev"
      [] OTHER                                           -> "other"

RECURSIVE SumWattsAt(_)
SumWattsAt(idx) ==
    IF idx = {} THEN 0
    ELSE LET i == CHOOSE i \in idx : TRUE
         IN  loads[i].usage.assumedWatts + SumWattsAt(idx \ {i})

BucketIdx(b) == {i \in 1..Len(loads) : BucketOfCategory(loads[i].category) = b}

BucketWatts(b) == SumWattsAt(BucketIdx(b))

\* the seven bucket demands in 1/20 VA
SevenBuckets ==
    LET lighting == IF sqFt > 0 THEN 3 * sqFt
                    ELSE IF BucketWatts("lighting") = 0 THEN 4500
                    ELSE BucketWatts("lighting")
        g == lighting + 3000 + 1500
        general == 20 * Min(g, 10000) + 8 * Max(0, g - 10000)
        fixed   == IF Cardinality(BucketIdx("fixed")) >= 4
                   THEN 15 * BucketWatts("fixed") ELSE 20 * BucketWatts("fixed")
        cooking == IF BucketIdx("cooking") = {} THEN 0
                   ELSE IF Cardinality(BucketIdx("cooking")) = 1
                           /\ BucketWatts("cooking") <= 12000
                   THEN 20 * 8000 ELSE 13 * BucketWatts("cooking")
        dryer   == IF BucketIdx("dryer") = {} THEN 0
                   ELSE 20 * Max(5000, BucketWatts("dryer"))
        hvac    == 20 * Max(BucketWatts("cooling"), BucketWatts("heating"))
    IN  general + fixed + cooking + dryer + hvac
            + 20 * BucketWatts("other") + 20 * BucketWatts("ev")

\* C1: totalDemandVA is the sum of the seven bucket demands (demand-factored
\* general total, fixed appliances with 0.75 from four on, cooking, dryer,
\* HVAC, other large loads, EV), serviceAmps is totalDemandVA / serviceVoltage
\* (reported to one decimal); a 240 V / 200 A service with sqFt = 2000 and
\* one 1500 W 'Other' load gives 11700 VA, 48.8 A, ratio 24, status OK.
C1_TotalIsSumOfBuckets ==
    /\ nec.totalDemandVA = SevenBuckets
    /\ nec.serviceAmps
         = (10 * SevenBuckets + 10 * service.serviceVoltage)
              \div (20 * service.serviceVoltage)
    /\ ( /\ service = [serviceVoltage |-> 240, mainBreakerAmps |-> 200]
         /\ sqFt = 2000
         /\ Len(loads) = 1
         /\ loads[1].category = CatOther
         /\ loads[1].usage.assumedWatts = 1500 )
       => /\ nec.totalDemandVA = 11700 * 20
          /\ nec.serviceAmps = 488
          /\ nec.ratio = 24
          /\ nec.status = "OK"

\* C1 witness: four fixed appliances, so the 0.75 demand factor applies and
\* the total still equals the sum of the seven buckets
C1_Witness ==
    /\ Cardinality(BucketIdx("fixed")) >= 4
    /\ nec.totalDemandVA = SevenBuckets
    /\ nec.breakdown.fixedAppliances = 13500

\* C2: raising the assumedWatts of a single load, everything else unchanged,
\* never lowers totalDemandVA
C2_Monotonic ==
    [][ ( /\ Len(loads') = Len(loads)
          /\ service' = service
          /\ sqFt' = sqFt
          /\ \E i \in 1..Len(loads) :
               /\ loads'[i].usage.assumedWatts > loads[i].usage.assumedWatts
               /\ loads' = [loads EXCEPT ![i].usage.assumedWatts
                                           = loads'[i].usage.assumedWatts] )
        => nec'.totalDemandVA >= nec.totalDemandVA ]_vars

\* C6: status is Undersized exactly when serviceAmps / mainBreakerAmps > 1.0,
\* Borderline exactly when it is > 0.8 and <= 1.0, OK otherwise; serviceAmps
\* is totalDemandVA / serviceVoltage
C6_StatusThresholds ==
    LET va  == nec.totalDemandVA
        cap == 20 * service.serviceVoltage * service.mainBreakerAmps
    IN  /\ (nec.status = "Undersized") <=> (va > cap)
        /\ (nec.status = "Borderline") <=> (5 * va > 4 * cap /\ va <= cap)
        /\ (nec.status = "OK") <=> (5 * va <= 4 * cap)

\* C6 witness: a demand exactly at 100% of the main breaker is Borderline
C6_Witness ==
    /\ nec.totalDemandVA
         = 20 * service.serviceVoltage * service.mainBreakerAmps
    /\ nec.status = "Borderline"

----------------------------------------------------------------------------
(* Claims about the Battery Sizing Engine.  The requirements are restated   *)
(* here from the project state: daily energy and running watts summed over  *)
(* the loads flagged for battery sizing, the largest known LRA among the    *)
(* motor loads.                                                             *)

RECURSIVE SumFn(_, _)
SumFn(f, S) ==
    IF S = {} THEN 0
    ELSE LET i == CHOOSE i \in S : TRUE IN f[i] + SumFn(f, S \ {i})

\* ceiling of n / d for d > 0
Ceil(n, d) == 0 - ((0 - n) \div d)

SizedIdx == {i \in 1..Len(loads) : loads[i].usage.includeInBatteryCalc}

MotorIdx == {i \in SizedIdx : loads[i].motor.isMotor}

\* energy requirement in 1/400 Wh
ReqEnergy ==
    SumFn([i \in SizedIdx |->
              loads[i].usage.assumedWatts * loads[i].usage.hoursPerDay], SizedIdx)
        * backupDays * (100 - options.solarOffsetPercent)

\* peak power requirement in W
ReqPower == SumFn([i \in SizedIdx |-> loads[i].usage.assumedWatts], SizedIdx)

\* motor-start requirement: the largest LRA declared by a motor load
ReqLRA ==
    LET known == {loads[i].motor.lra : i \in {j \in MotorIdx : loads[j].motor.lra > 0}}
    IN  IF known = {} THEN 0 ELSE CHOOSE a \in known : \A b \in known : a >= b

\* capacity of n units of product p in 1/400 Wh
Capacity(p, n) == n * p.usableKWh * 400

SetMax(S) == CHOOSE a \in S : \A b \in S : a >= b

\* the single-product rule of C3 for one configuration r of product p with
\* maximum unit count maxUnits; rated says whether p has a motor-start rating
SingleProductRule(r, p, maxUnits, rated) ==
    LET forEnergy == Ceil(ReqEnergy, p.usableKWh * 400)
        forPower  == Ceil(ReqPower, p.continuousKW)
        forMotorStart == IF rated THEN Ceil(ReqLRA, p.motorStartLRA) ELSE 0
        required  == SetMax({forEnergy, forPower, forMotorStart, 1})
        capped    == IF required > maxUnits THEN maxUnits ELSE required
    IN  /\ r.forEnergy = forEnergy
        /\ r.forPower = forPower
        /\ rated => r.forMotorStart = forMotorStart
        /\ r.notFeasible <=> required > maxUnits
        /\ r.notFeasible => r.reason \notin {Undefined, NullString, ""}
        /\ r.count = required
        /\ r.totalKWh = capped * p.usableKWh
        /\ r.totalKW = capped * p.continuousKW

\* C3 (as claimed): every single-product configuration needs
\* max(forEnergy, forPower, forMotorStart if rated, 1) units, is notFeasible
\* exactly when that exceeds the product's maximum, then reports the
\* unclamped count with totals from the capped count; in particular
\* teslaPW3Only is notFeasible when forPower or forMotorStart alone exceeds
\* maxLeaders.
C3_SingleProductFeasibility ==
    /\ SingleProductRule(batt.enphase5P, specs.enphase5P,
                         specs.enphase5P.maxUnits, FALSE)
    /\ SingleProductRule(batt.enphase10C, specs.enphase10C,
                         specs.enphase10C.maxUnits, TRUE)
    /\ SingleProductRule(batt.teslaPW3Only, specs.teslaPW3,
                         specs.teslaPW3.maxLeaders, TRUE)

\* the part of C3 about the two Enphase products, which the code satisfies
C3_EnphaseOnly ==
    /\ SingleProductRule(batt.enphase5P, specs.enphase5P,
                         specs.enphase5P.maxUnits, FALSE)
    /\ SingleProductRule(batt.enphase10C, specs.enphase10C,
                         specs.enphase10C.maxUnits, TRUE)

\* a configuration result carries a motor-start advisory
HasAdvisory(r) ==
    /\ "motorStartWarning" \in DOMAIN r
    /\ r.motorStartWarning \notin {NullString, Undefined, ""}

BatteryConfigs ==
    {"enphase5P", "enphase10C", "enphase_mixed", "teslaPW3Only",
     "teslaPW3WithExpansions"}

\* C7 (as claimed): when a sized motor load has no LRA, all five
\* configuration results carry a non-empty motor-start advisory; when every
\* motor load has an LRA, none does.
C7_AdvisoryOnEveryConfig ==
    IF \E i \in MotorIdx : loads[i].motor.lra \in {null, 0}
    THEN \A c \in BatteryConfigs : HasAdvisory(batt[c])
    ELSE \A c \in BatteryConfigs : ~HasAdvisory(batt[c])

\* C8: mixed Enphase sizing: count10C = max(10C units for power, 10C units
\* for motor start, 1); count5P = ceil(remaining energy / 5P usable kWh) with
\* remaining energy = max(0, energy - count10C * 10C usable kWh);
\* totalUnits = count10C + count5P; notFeasible exactly when totalUnits
\* exceeds the sum of the two maximum unit counts.
C8_MixedEnphase ==
    LET r == batt.enphase_mixed
        n10 == SetMax({Ceil(ReqPower, specs.enphase10C.continuousKW),
                       Ceil(ReqLRA, specs.enphase10C.motorStartLRA), 1})
        rest == IF ReqEnergy > Capacity(specs.enphase10C, n10)
                THEN ReqEnergy - Capacity(specs.enphase10C, n10) ELSE 0
        n5 == Ceil(rest, specs.enphase5P.usableKWh * 400)
    IN  /\ r.count10C = n10
        /\ r.count5P = n5
        /\ r.totalUnits = n10 + n5
        /\ r.notFeasible
             <=> n10 + n5 > specs.enphase10C.maxUnits + specs.enphase5P.maxUnits

\* C8 witness: 5P units are added for the remaining energy and the total
\* exceeds the combined maximum
C8_Witness ==
    /\ batt.enphase_mixed.count10C > 1
    /\ batt.enphase_mixed.count5P > 0
    /\ batt.enphase_mixed.notFeasible

\* C9: Tesla leader + expansion sizing: leaders = min(max(forPower,
\* forMotorStart, 1), maxLeaders); expansions = min(expansions needed for the
\* energy left after the leaders' energy, leaders * maxPerLeader); totalKW
\* counts leaders only; notFeasible, with a reason, exactly when the
\* expansions needed exceed leaders * maxPerLeader.
C9_TeslaExpansions ==
    LET r == batt.teslaPW3WithExpansions
        pw3 == specs.teslaPW3
        exp == specs.teslaPW3Expansion
        want == SetMax({Ceil(ReqPower, pw3.continuousKW),
                        Ceil(ReqLRA, pw3.motorStartLRA), 1})
        leaders == IF want > pw3.maxLeaders THEN pw3.maxLeaders ELSE want
        rest == IF ReqEnergy > Capacity(pw3, leaders)
                THEN ReqEnergy - Capacity(pw3, leaders) ELSE 0
        needed == Ceil(rest, exp.usableKWh * 400)
        cap == leaders * exp.maxPerLeader
    IN  /\ r.leaders = leaders
        /\ r.expansions = (IF needed > cap THEN cap ELSE needed)
        /\ r.totalKW = leaders * pw3.continuousKW
        /\ r.notFeasible <=> needed > cap
        /\ r.notFeasible <=> r.reason \notin {Undefined, NullString, ""}
        /\ r.leaders <= pw3.maxLeaders
        /\ r.expansions <= r.leaders * exp.maxPerLeader

\* C9 witness: the power requirement asks for more leaders than allowed and
\* the energy left asks for more expansions than the leaders can carry
C9_Witness ==
    /\ Ceil(ReqPower, specs.teslaPW3.continuousKW) > specs.teslaPW3.maxLeaders
    /\ batt.teslaPW3WithExpansions.leaders = specs.teslaPW3.maxLeaders
    /\ batt.teslaPW3WithExpansions.expansions > 0
    /\ batt.teslaPW3WithExpansions.notFeasible

\* C10: the solar offset affects energy only: two sizings that differ in
\* solarOffsetPercent alone report the same forPower and forMotorStart in
\* every configuration that has them, the same Tesla leader count and the
\* same summary.peakPowerKW.
C10_SolarOffsetEnergyOnly ==
    [][ ( /\ loads' = loads
          /\ backupDays' = backupDays
          /\ specs' = specs
          /\ options' = [options EXCEPT !.solarOffsetPercent
                                          = options'.solarOffsetPercent] )
        => /\ batt'.enphase5P.forPower = batt.enphase5P.forPower
           /\ batt'.enphase10C.forPower = batt.enphase10C.forPower
           /\ batt'.enphase10C.forMotorStart = batt.enphase10C.forMotorStart
           /\ batt'.teslaPW3Only.forPower = batt.teslaPW3Only.forPower
           /\ batt'.teslaPW3Only.forMotorStart = batt.teslaPW3Only.forMotorStart
           /\ batt'.teslaPW3WithExpansions.leaders
                = batt.teslaPW3WithExpansions.leaders
           /\ batt'.summary.peakPowerKW = batt.summary.peakPowerKW ]_vars

\* C10 witness: a sizing with a 50% offset whose energy-bound count is below
\* the count the same loads need without offset, with power and motor-start
\* requirements present
C10_Witness ==
    /\ options.solarOffsetPercent = 50
    /\ batt.enphase10C.forPower > 0
    /\ batt.enphase10C.forMotorStart > 0
    /\ batt.enphase5P.forEnergy
         < Ceil(2 * ReqEnergy, specs.enphase5P.usableKWh * 400)

----------------------------------------------------------------------------
(* Claims about the EV Feasibility Evaluator and the Panel Slot Accountant *)

Recommendations ==
    {"Service upgrade recommended", "Subpanel recommended",
     "Requires tandems to free space", "Feasible but borderline capacity",
     "Add as-is"}

\* slots taken by the loads of the project, or the declared usedSlots when
\* the project has no load
UsedSlotFigure ==
    IF Len(loads) = 0 THEN panel.usedSlots
    ELSE Cardinality({i \in 1..Len(loads) : loads[i].breaker.type = "Tandem"})
         + SumFn([i \in 1..Len(loads) |-> loads[i].breaker.poles],
                 {i \in 1..Len(loads) : loads[i].breaker.type # "Tandem"})

NoSpace == panel.totalSlots - UsedSlotFigure < 2 * ev.chargerCount

TandemsCanFree ==
    /\ panel.tandemsAllowed = "Allowed"
    /\ CASE panel.tandemPolicy.allowedPositions = "All slots" -> panel.totalSlots > 0
         [] panel.tandemPolicy.allowedPositions = "Bottom half only"
              -> panel.totalSlots >= 2
         [] OTHER -> panel.tandemPolicy.customMaxTandemSlots > 0

\* C4: with a charger selected the recommendation is exactly one of the five
\* tiers, the first that matches: with-EV status Undersized; no space and
\* tandems cannot free any; no space and tandem capacity exists; has space
\* and with-EV status Borderline; otherwise 'Add as-is'.  With-EV status
\* Undersized gives 'Service upgrade recommended' for every space and tandem
\* state.
C4_RecommendationTiers ==
    ev.chargerOption # <<>> =>
        LET st == evf.necWithEV.status
            rec == evf.recommendation
        IN  /\ rec \in Recommendations
            /\ (rec = "Service upgrade recommended") <=> (st = "Undersized")
            /\ (rec = "Subpanel recommended")
                 <=> (st # "Undersized" /\ NoSpace /\ ~TandemsCanFree)
            /\ (rec = "Requires tandems to free space")
                 <=> (st # "Undersized" /\ NoSpace /\ TandemsCanFree)
            /\ (rec = "Feasible but borderline capacity")
                 <=> (st = "Borderline" /\ ~NoSpace)
            /\ (rec = "Add as-is") <=> (st = "OK" /\ ~NoSpace)

\* C4 witness: the service is undersized with the charger while the panel
\* has no space and tandems cannot free any
C4_Witness ==
    /\ ev.chargerOption # <<>>
    /\ evf.necWithEV.status = "Undersized"
    /\ NoSpace
    /\ ~TandemsCanFree
    /\ evf.recommendation = "Service upgrade recommended"

\* C5 (as claimed): availableSlots is totalSlots - (usedSlots +
\* tandemSlotsUsed) floored at 0 and never negative, both in the result of
\* calculatePanelSlots and in Step 1's 'Total Available Panel Slots'.
C5_AvailableSlotsNeverNegative ==
    LET free == panel.totalSlots - (panel.usedSlots + panel.tandemSlotsUsed)
        floored == IF free < 0 THEN 0 ELSE free
    IN  /\ panelSlots.availableSlots >= 0
        /\ panelSlots.availableSlots = floored
        /\ totalAvailableSlots = floored

\* the part of C5 about Step 1, which the code satisfies
C5_Step1Only ==
    LET free == panel.totalSlots - (panel.usedSlots + panel.tandemSlotsUsed)
    IN  totalAvailableSlots = (IF free < 0 THEN 0 ELSE free)

----------------------------------------------------------------------------
(* Further claims about the Battery Sizing Engine *)

\* daily energy of the loads flagged for battery sizing, in Wh
DailyWh ==
    SumFn([i \in SizedIdx |->
              loads[i].usage.assumedWatts * loads[i].usage.hoursPerDay], SizedIdx)

\* dailyKWh x backupDays, times (1 - offset/100) when the offset is positive,
\* in 1/400 Wh
EnergyRequirement ==
    IF options.solarOffsetPercent > 0
    THEN DailyWh * backupDays * (100 - options.solarOffsetPercent)
    ELSE DailyWh * backupDays * 100

SelectedIdx ==
    IF options.includeLoadIds # NullIds
    THEN {i \in 1..Len(loads) : loads[i].id \in options.includeLoadIds}
    ELSE {i \in 1..Len(loads) : loads[i].usage.includeInBatteryCalc}

\* the hours a load is sized with: those of its partialSelections entry when
\* it has one, otherwise its own
SizedHours(l) ==
    IF l.id \in DOMAIN options.partialSelections
    THEN options.partialSelections[l.id].hoursPerDay
    ELSE l.usage.hoursPerDay

ProposedIdx == 1..Len(options.proposedEVLoads)

SelectedWatts ==
    SumFn([i \in SelectedIdx |-> loads[i].usage.assumedWatts], SelectedIdx)
      + SumFn([i \in ProposedIdx |-> options.proposedEVLoads[i].usage.assumedWatts],
              ProposedIdx)

SelectedDailyWh ==
    SumFn([i \in SelectedIdx |->
              loads[i].usage.assumedWatts * SizedHours(loads[i])], SelectedIdx)
      + SumFn([i \in ProposedIdx |->
                 options.proposedEVLoads[i].usage.assumedWatts
                    * SizedHours(options.proposedEVLoads[i])], ProposedIdx)

----------------------------------------------------------------------------
(* Further claims about the NEC Demand Estimator.  Demands in 1/20 VA.      *)

\* demand of a general total g: 100% of the first 10,000 VA, 40% above
GeneralDemandOf(g) == 20 * Min(g, 10000) + 8 * Max(0, g - 10000)

FixedBucketVA ==
    IF Cardinality(BucketIdx("fixed")) >= 4
    THEN 15 * BucketWatts("fixed") ELSE 20 * BucketWatts("fixed")

CookingBucketVA ==
    IF BucketIdx("cooking") = {} THEN 0
    ELSE IF Cardinality(BucketIdx("cooking")) = 1 /\ BucketWatts("cooking") <= 12000
    THEN 20 * 8000
    ELSE 13 * BucketWatts("cooking")

DryerBucketVA ==
    IF BucketIdx("dryer") = {} THEN 0 ELSE 20 * Max(5000, BucketWatts("dryer"))

HvacBucketVA == 20 * Max(BucketWatts("cooling"), BucketWatts("heating"))

\* the demand of every bucket but the general one
NonGeneralBuckets ==
    FixedBucketVA + CookingBucketVA + DryerBucketVA + HvacBucketVA
        + 20 * BucketWatts("other") + 20 * BucketWatts("ev")

\* the general-lighting VA as claimed: square footage x 3, else the sum of
\* the general-lighting loads, else (no such load) 4500
ClaimedLightingVA ==
    IF sqFt > 0 THEN 3 * sqFt
    ELSE IF BucketIdx("lighting") # {} THEN BucketWatts("lighting")
    ELSE 4500

\* the general-lighting VA with the fallback taken whenever the sum is 0
LightingVA ==
    IF sqFt > 0 THEN 3 * sqFt
    ELSE IF BucketWatts("lighting") # 0 THEN BucketWatts("lighting")
    ELSE 4500

\* C13 (as claimed): the general-lighting VA is squareFootage x 3 when the
\* square footage is known and positive, otherwise the sum of assumedWatts
\* of the 'General Lighting/Receptacles' loads, and 4500 VA only when there
\* is neither square footage nor such a load.
C13_GeneralLighting ==
    nec.totalDemandVA - NonGeneralBuckets
        = GeneralDemandOf(ClaimedLightingVA + 3000 + 1500)

\* the general-lighting rule the estimator follows: the fallback also
\* replaces a sum of 0
C13_FallbackOnZeroSum ==
    nec.totalDemandVA - NonGeneralBuckets
        = GeneralDemandOf(LightingVA + 3000 + 1500)

\* C14: cooking demand is 0 without a Range/Oven or Cooktop load, a flat
\* 8,000 VA for exactly one cooking load of at most 12,000 W, otherwise 65%
\* of the summed cooking watts.
C14_CookingDemand ==
    LET cooking == nec.totalDemandVA
                     - (GeneralDemandOf(LightingVA + 3000 + 1500) + FixedBucketVA
                          + DryerBucketVA + HvacBucketVA
                          + 20 * BucketWatts("other") + 20 * BucketWatts("ev"))
        n == Cardinality(BucketIdx("cooking"))
    IN  /\ n = 0 => cooking = 0
        /\ (n = 1 /\ BucketWatts("cooking") <= 12000) => cooking = 20 * 8000
        /\ (n > 1 \/ (n = 1 /\ BucketWatts("cooking") > 12000))
             => cooking = 13 * BucketWatts("cooking")
        /\ nec.breakdown.cooking = (cooking + 10) \div 20

\* C14 witness: a single range of 12,001 W is charged 65%, 7800.65 VA
C14_Witness ==
    /\ Cardinality(BucketIdx("cooking")) = 1
    /\ BucketWatts("cooking") = 12001
    /\ nec.breakdown.cooking = 7801

\* C15: the general total g (general lighting + 3000 VA small-appliance +
\* 1500 VA laundry) is charged min(g, 10000) + 0.4 x max(0, g - 10000);
\* g = 10000 gives 10000 VA and g = 10001 gives 10000.4 VA.
C15_DemandFactor ==
    LET g == LightingVA + 3000 + 1500
        demandGeneral20 == nec.totalDemandVA - NonGeneralBuckets
    IN  /\ g <= 10000 => demandGeneral20 = 20 * g
        /\ g > 10000 => demandGeneral20 = 20 * 10000 + 8 * (g - 10000)
        /\ g = 10000 => demandGeneral20 = 200000
        /\ g = 10001 => demandGeneral20 = 200008
        /\ nec.breakdown.generalAndSmallAppliance = (demandGeneral20 + 10) \div 20

\* C15 witness: general lighting of 5501 VA makes the general total 10001 VA
C15_Witness ==
    /\ sqFt = 0
    /\ BucketWatts("lighting") = 5501
    /\ nec.totalDemandVA - NonGeneralBuckets = 200008

----------------------------------------------------------------------------
(* Claims about the single-product configurations *)

\* the label of the largest of the three counts, ties resolved toward
\* Energy, then Power, then Motor Start
BindingLabel(forEnergy, forPower, forMotorStart) ==
    LET largest == SetMax({forEnergy, forPower, forMotorStart})
    IN  IF forEnergy = largest THEN "Energy"
        ELSE IF forPower = largest THEN "Power"
        ELSE "Motor Start"

\* C16: in each single-product configuration limitedBy names the largest of
\* forEnergy, forPower and forMotorStart (the 5P has no motor-start count),
\* ties resolved toward 'Energy', then 'Power', then 'Motor Start'.
C16_LimitedBy ==
    /\ batt.enphase5P.limitedBy
         = BindingLabel(batt.enphase5P.forEnergy, batt.enphase5P.forPower, 0)
    /\ batt.enphase10C.limitedBy
         = BindingLabel(batt.enphase10C.forEnergy, batt.enphase10C.forPower,
                        batt.enphase10C.forMotorStart)
    /\ batt.teslaPW3Only.limitedBy
         = BindingLabel(batt.teslaPW3Only.forEnergy, batt.teslaPW3Only.forPower,
                        batt.teslaPW3Only.forMotorStart)

\* C16 witness: the 10C is bound by motor start while the Powerwall has a
\* tie between power and motor start, resolved toward 'Power'
C16_Witness ==
    /\ batt.enphase10C.limitedBy = "Motor Start"
    /\ batt.teslaPW3Only.forPower = batt.teslaPW3Only.forMotorStart
    /\ batt.teslaPW3Only.forEnergy < batt.teslaPW3Only.forPower
    /\ batt.teslaPW3Only.limitedBy = "Power"

\* C17: the unit count of every single-product configuration is at least 1
\* for every input, an empty load list and loads of 0 W included.
C17_CountAtLeastOne ==
    /\ batt.enphase5P.count >= 1
    /\ batt.enphase10C.count >= 1
    /\ batt.teslaPW3Only.count >= 1

\* C17 witness: a project whose loads all draw 0 W is sized with one unit of
\* each product
C17_Witness ==
    /\ Len(loads) >= 2
    /\ \A i \in 1..Len(loads) : loads[i].usage.assumedWatts = 0
    /\ batt.enphase5P.forEnergy = 0
    /\ batt.enphase5P.forPower = 0
    /\ batt.enphase5P.count = 1
    /\ batt.enphase10C.count = 1
    /\ batt.teslaPW3Only.count = 1

----------------------------------------------------------------------------
(* Claims about the EV space check, the modeled slots and the practical     *)
(* load                                                                     *)

\* C18 (as claimed): with a charger selected, the used-slot figure is the
\* slot count modeled from the load list when the list is non-empty and the
\* declared usedSlots when it is empty; available slots = totalSlots minus
\* that figure; slots needed = 2 x chargerCount; hasSpace exactly when
\* available slots >= slots needed.
C18_SpaceCheck ==
    ev.chargerOption # <<>> =>
        /\ evf.availableSlots = panel.totalSlots - UsedSlotFigure
        /\ evf.slotsNeeded = 2 * ev.chargerCount
        /\ evf.hasSpace <=> (evf.availableSlots >= evf.slotsNeeded)

\* the part of C18 the evaluator satisfies: the figure used, the slots
\* needed and hasSpace; the reported available slots are floored at 0
C18_HasSpace ==
    ev.chargerOption # <<>> =>
        /\ evf.availableSlots = Max(0, panel.totalSlots - UsedSlotFigure)
        /\ evf.slotsNeeded = 2 * ev.chargerCount
        /\ evf.hasSpace <=> (panel.totalSlots - UsedSlotFigure >= 2 * ev.chargerCount)

\* slots of load i as claimed: 1 for a tandem breaker, else its poles
SlotsOfLoad(i) ==
    IF loads[i].breaker.type = "Tandem" THEN 1 ELSE loads[i].breaker.poles

\* C19: a load contributes 1 slot to calculateModeledSlots when its breaker
\* is Tandem and breaker.poles slots otherwise; the result for a load list
\* is the sum of these contributions.
C19_ModeledSlots ==
    modeledSlots = SumFn([i \in 1..Len(loads) |-> SlotsOfLoad(i)], 1..Len(loads))

\* C19 witness: three 2-pole loads and one tandem load take 7 slots, which
\* leaves 1 of the 8 slots of the panel to the charger selected
C19_Witness ==
    /\ \E i \in 1..Len(loads) : loads[i].breaker.type = "Tandem"
    /\ Cardinality({i \in 1..Len(loads) : loads[i].breaker.poles = 2}) = 3
    /\ modeledSlots = 7
    /\ ev.chargerOption # <<>>
    /\ panel.totalSlots = 8
    /\ evf.availableSlots = 1

\* the motor loads of the project
MotorLoadIdx == {i \in 1..Len(loads) : loads[i].motor.isMotor}

\* the sums and the motor count reported by calculatePracticalLoad
C20_Sums ==
    /\ practical.totalRunningWatts
         = SumFn([i \in 1..Len(loads) |-> loads[i].usage.assumedWatts],
                 1..Len(loads))
    /\ practical.totalDailyWh
         = SumFn([i \in 1..Len(loads) |->
                     loads[i].usage.assumedWatts * loads[i].usage.hoursPerDay],
                 1..Len(loads))
    /\ practical.motorLoads = Cardinality(MotorLoadIdx)

\* C20 (as claimed): calculatePracticalLoad reports the plain sums of
\* assumedWatts and of assumedWatts x hoursPerDay, the number of motor
\* loads, and the watts and the LRA of the single largest motor load: both
\* figures belong to one and the same motor load of the list.
C20_PracticalLoad ==
    /\ C20_Sums
    /\ MotorLoadIdx = {}
         => practical.largestMotorWatts = 0 /\ practical.largestMotorLRA = 0
    /\ MotorLoadIdx # {}
         => \E i \in MotorLoadIdx :
               /\ \A j \in MotorLoadIdx :
                     loads[i].usage.assumedWatts >= loads[j].usage.assumedWatts
               /\ practical.largestMotorWatts = loads[i].usage.assumedWatts
               /\ practical.largestMotorLRA
                    = (IF loads[i].motor.lra > 0 THEN loads[i].motor.lra ELSE 0)

----------------------------------------------------------------------------
(* Claims about feasibility and about the reported utilization *)

\* a configuration result r covers the requirement: its capacity is at
\* least the energy needed and its power at least the peak power
Covers(r) ==
    /\ r.totalKWh * 400 >= EnergyRequirement
    /\ r.totalKW >= ReqPower

\* C27 (as claimed): each of the five configuration results with
\* notFeasible = false has totalKWh at least the total energy needed and
\* totalKW at least the peak power.
C27_FeasibleCovers ==
    /\ ~batt.enphase5P.notFeasible => Covers(batt.enphase5P)
    /\ ~batt.enphase10C.notFeasible => Covers(batt.enphase10C)
    /\ ~batt.enphase_mixed.notFeasible => Covers(batt.enphase_mixed)
    /\ ~batt.teslaPW3Only.notFeasible => Covers(batt.teslaPW3Only)
    /\ ~batt.teslaPW3WithExpansions.notFeasible
         => Covers(batt.teslaPW3WithExpansions)

\* the part of C27 about the three Enphase configurations
C27_EnphaseCovers ==
    /\ ~batt.enphase5P.notFeasible => Covers(batt.enphase5P)
    /\ ~batt.enphase10C.notFeasible => Covers(batt.enphase10C)
    /\ ~batt.enphase_mixed.notFeasible => Covers(batt.enphase_mixed)

C30_RatioWithinRounding ==
    /\ nec.status = "Undersized" => nec.ratio >= 100
    /\ nec.status = "OK" => nec.ratio <= 80
    /\ nec.status = "Borderline" => nec.ratio >= 80 /\ nec.ratio <= 100

----------------------------------------------------------------------------
(* Slot validation shown to the user: Step 3, Step 7 and the summary text *)

\* Step 3 (load table): slotDelta = modeledSlots - totalAvailableSlots
step3SlotDelta(ls, p) ==
    calculateModeledSlots(ls) - step1TotalAvailableSlots(p)

\* Step 7 (summary page): the same expression, computed again
step7SlotDelta(ls, p) ==
    calculateModeledSlots(ls) - step1TotalAvailableSlots(p)

\* copySummaryText: "Modeled Slots: n (delta: n - usedSlots)"
copySummaryTextDelta(ls, p) ==
    calculateModeledSlots(ls) - p.usedSlots

\* C26 (as claimed): the slot delta is modeled slots minus the declared
\* usedSlots, and Step 3, Step 7 and the exported summary text show the
\* same delta for the same project.
C26_SlotDelta ==
    /\ step3SlotDelta(loads, panel) = modeledSlots - panel.usedSlots
    /\ step7SlotDelta(loads, panel) = step3SlotDelta(loads, panel)
    /\ copySummaryTextDelta(loads, panel) = step3SlotDelta(loads, panel)

\* the part of C26 that holds: Step 3 and Step 7 agree, and deriving the
\* warnings changes neither usedSlots nor tandemSlotsUsed
C26_StepsAgree ==
    /\ step7SlotDelta(loads, panel) = step3SlotDelta(loads, panel)
    /\ copySummaryTextDelta(loads, panel) = modeledSlots - panel.usedSlots

----------------------------------------------------------------------------
(* Step 4: the tandem override and the recommendation badge displayed *)

\* the override controls are rendered when the result exists, there is no
\* space and tandems can free slots
overrideShown(evResult) ==
    /\ evResult # NullResult
    /\ ~evResult.hasSpace
    /\ evResult.canUseTandems

\* the argument of recBadge in the Recommendation panel
displayedRecommendation(evResult, override) ==
    IF override > 0 /\ ~evResult.hasSpace /\ evResult.canUseTandems
    THEN "Add as-is"
    ELSE evResult.recommendation

\* values typed in the 'Slots to free' input
SlotsToFreeChoices == {0, 2}

\* the checkbox: setTandemOverride(e.target.checked ? 1 : 0)
toggleTandemOverride(checked) ==
    /\ overrideShown(evf)
    /\ checked = ~(tandemOverride > 0)
    /\ tandemOverride' = (IF checked THEN 1 ELSE 0)
    /\ UNCHANGED <<loads, necVars, battVars, evVars, nextLoadId, now, partialHome,
                 currentStep>>

\* the number input: setTandemOverride(Math.max(0, Number(value) || 0))
setSlotsToFree(v) ==
    /\ overrideShown(evf)
    /\ tandemOverride > 0
    /\ tandemOverride # Max(0, v)
    /\ tandemOverride' = Max(0, v)
    /\ UNCHANGED <<loads, necVars, battVars, evVars, nextLoadId, now, partialHome,
                 currentStep>>

\* Step 4 is left and opened again: useState(0)
remountStep4 ==
    /\ tandemOverride # 0
    /\ tandemOverride' = 0
    /\ UNCHANGED <<loads, necVars, battVars, evVars, nextLoadId, now, partialHome,
                 currentStep>>

\* Specification SpecBadge: panel and charger are edited and the tandem
\* override is set while Step 4 shows the recommendation
NextBadge ==
    \/ \E v \in TotalSlotsChoices : updatePanel("totalSlots", Max(2, v))
    \/ \E v \in TandemsAllowedChoices : updatePanel("tandemsAllowed", v)
    \/ \E o \in EVChargerOptions : selectCharger(<<o>>)
    \/ \E a \in CustomAmpsChoices : setCustomAmps(a)
    \/ \E c \in 0..MaxChargers : setChargerCount(c)
    \/ \E checked \in BOOLEAN : toggleTandemOverride(checked)
    \/ \E v \in SlotsToFreeChoices : setSlotsToFree(v)
    \/ remountStep4

SpecBadge == InitEV /\ [][NextBadge]_vars

\* C28 (as claimed): while the service status with the EV is Undersized the
\* badge displayed in Step 4 is 'Service upgrade recommended', whatever the
\* tandem override is set to.
C28_BadgeUndersized ==
    (evf # NullResult /\ evf.necWithEV.status = "Undersized")
        => displayedRecommendation(evf, tandemOverride)
             = "Service upgrade recommended"

\* the part of C28 that holds: without an override the badge is the
\* recommendation of calculateEVFeasibility
C28_BadgeWithoutOverride ==
    (evf # NullResult /\ evf.necWithEV.status = "Undersized"
       /\ tandemOverride = 0)
        => displayedRecommendation(evf, tandemOverride)
             = "Service upgrade recommended"

----------------------------------------------------------------------------
(* Load table (Step 3): load rows, the category library and the edits *)

\* values of currentStep: the Entry Path, Load Table and Battery (Partial)
\* steps of renderStep
StepEntry == 1
StepLoadTable == 2
StepPartial == 5

\* largest number of loads that are not NEC baseline loads
MaxCustomLoads == 1

\* largest value of the id counter for which a load is still created
MaxLoadIds == 5

\* the id `load_${nextLoadId++}_${Date.now()}`: the counter value and the
\* time of creation
newLoadId(n, t) == <<n, t>>

\* tandemCircuitB: null is <<>>, a circuit B record b is <<b>>
NoTandemB == <<>>

\* the circuit B created when a 1-pole breaker becomes a tandem
defaultTandemCircuitB ==
    [ description |-> "Tandem Circuit B", category |-> CatOther, amps |-> 15,
      assumedWatts |-> 500, hoursPerDay |-> 4, isMotor |-> FALSE, lra |-> null ]

\* createLoadEntry(overrides) with the fields the load table edits:
\* description, breaker.amps, tandemCircuitB: null, _wattsManuallySet: false
\* (_necEdited is absent until updateLoad sets it)
loadRow(id, description, category, poles, amps, watts, hours, isMotor, lra) ==
    [ createLoadEntry(id, category, watts, hours, isMotor, lra, poles, "Standard")
        EXCEPT !.breaker.amps = amps ]
    @@ [ description |-> description, tandemCircuitB |-> NoTandemB,
         necEdited |-> FALSE, wattsManuallySet |-> FALSE ]

DescLighting == "NEC Baseline: General Lighting & Receptacles"
DescSmallAppliance1 == "NEC Baseline: Small Appliance Circuit #1"
DescSmallAppliance2 == "NEC Baseline: Small Appliance Circuit #2"
DescLaundry == "NEC Baseline: Laundry Circuit"

\* createNECBaselineLoads(sqFt): four loads with isNECBaseline: true; the
\* ids take the next four values of the id counter, firstN onwards, at
\* time t
createNECBaselineLoads(sq, firstN, t) ==
    LET sqFtNum == IF sq = 0 THEN 1500 ELSE sq
        lightingWatts == sqFtNum * 3
        baseline(l) == [l EXCEPT !.isNECBaseline = TRUE]
    IN  << baseline(loadRow(newLoadId(firstN, t), DescLighting, CatLighting,
                            1, 15, lightingWatts, 8, FALSE, null)),
           baseline(loadRow(newLoadId(firstN + 1, t), DescSmallAppliance1, CatOther,
                            1, 20, 1500, 2, FALSE, null)),
           baseline(loadRow(newLoadId(firstN + 2, t), DescSmallAppliance2, CatOther,
                            1, 20, 1500, 2, FALSE, null)),
           baseline(loadRow(newLoadId(firstN + 3, t), DescLaundry, CatOther,
                            1, 20, 1500, 1, FALSE, null)) >>

\* LOAD_LIBRARY: the category library (utilizationFactor in percent,
\* defaultLRA 0 when the entry has none)
LOAD_LIBRARY ==
    << [ category |-> CatRange, description |-> "Range/Oven", poles |-> 2,
         amps |-> 50, assumedWatts |-> 8000, hoursPerDay |-> 1,
         isMotor |-> FALSE, defaultLRA |-> 0, utilizationFactor |-> 50 ],
       [ category |-> CatFurnace, description |-> "Gas Furnace Blower",
         poles |-> 1, amps |-> 15, assumedWatts |-> 600, hoursPerDay |-> 8,
         isMotor |-> TRUE, defaultLRA |-> 30, utilizationFactor |-> 40 ] >>

\* LOAD_LIBRARY.find(l => l.category === category): <<>> when not found
libraryFind(category) ==
    SelectSeq(LOAD_LIBRARY, LAMBDA e : e.category = category)

\* lib.defaultLRA || null
lraOrNull(lra) == IF lra = 0 THEN null ELSE lra

\* getLoadVoltage(load, serviceVoltage), no voltage override
getLoadVoltage(l, serviceVoltage) ==
    IF l.breaker.poles = 1 THEN 120 ELSE serviceVoltage

\* the row addLoad(category) creates
addLoadEntry(id, category) ==
    LET found == libraryFind(category)
    IN  IF found # <<>>
        THEN LET lib == found[1]
             IN  [ loadRow(id, lib.description, lib.category, lib.poles,
                           lib.amps, lib.assumedWatts, lib.hoursPerDay,
                           lib.isMotor, lraOrNull(lib.defaultLRA))
                     EXCEPT !.usage.includeInBatteryCalc = (category # CatEV) ]
        ELSE loadRow(id, "", category, 1, 15, 500, 4, FALSE, null)

\* the row addCustomLoad creates
addCustomLoadEntry(id) ==
    loadRow(id, "Custom Load", CatOther, 1, 15, 500, 4, FALSE, null)

\* applyCategoryDefaults(load, categoryKey)
applyCategoryDefaults(l, categoryKey) ==
    LET found == libraryFind(categoryKey)
    IN  IF found = <<>>
        THEN l
        ELSE LET lib == found[1]
             IN  [ l EXCEPT
                     !.category = categoryKey,
                     !.breaker.poles = lib.poles,
                     !.breaker.amps = lib.amps,
                     !.breaker.type = (IF lib.poles = 2 THEN "Standard"
                                       ELSE l.breaker.type),
                     !.usage.assumedWatts = lib.assumedWatts,
                     !.usage.hoursPerDay = lib.hoursPerDay,
                     !.motor.isMotor = lib.isMotor,
                     !.motor.lra = lraOrNull(lib.defaultLRA),
                     !.wattsManuallySet = FALSE,
                     !.tandemCircuitB = (IF lib.poles = 2 THEN NoTandemB
                                         ELSE l.tandemCircuitB) ]

\* updateLoad: the baseline row is marked as edited
markNecEdited(l, field) ==
    IF l.isNECBaseline /\ ~l.necEdited
       /\ (field[1] = "usage" \/ field = <<"breaker", "amps">>)
    THEN [l EXCEPT !.necEdited = TRUE]
    ELSE l

\* mutant of updateBreaker: the key is set and nothing else is adjusted
updateBreaker_SetKeyOnly(l, key, value, serviceVoltage) ==
    LET set == [l EXCEPT !.breaker[key] = value]
    IN  IF key = "type" /\ value = "Tandem" /\ set.breaker.poles = 1
           /\ set.tandemCircuitB = NoTandemB
        THEN [set EXCEPT !.tandemCircuitB = <<defaultTandemCircuitB>>]
        ELSE set

\* updateLoad, 'breaker.<key>' branch
updateBreaker(l, key, value, serviceVoltage) ==
    LET set == [l EXCEPT !.breaker[key] = value]
        found == libraryFind(set.category)
        uf == IF found # <<>> THEN found[1].utilizationFactor ELSE 50
        volts == getLoadVoltage(set, serviceVoltage)
        calc == IF ~set.wattsManuallySet /\ key \in {"amps", "poles"}
                THEN [set EXCEPT !.usage.assumedWatts =
                          MathRound(volts * set.breaker.amps * uf, 100)]
                ELSE set
        tandem == IF key = "type" /\ value = "Tandem" /\ calc.breaker.poles = 1
                     /\ calc.tandemCircuitB = NoTandemB
                  THEN [calc EXCEPT !.tandemCircuitB = <<defaultTandemCircuitB>>]
                  ELSE calc
        standard == IF key = "type" /\ value = "Standard"
                    THEN [tandem EXCEPT !.tandemCircuitB = NoTandemB]
                    ELSE tandem
    IN  IF key = "poles" /\ value = 2
        THEN [standard EXCEPT !.breaker.poles = 2, !.breaker.type = "Standard",
                              !.tandemCircuitB = NoTandemB]
        ELSE standard

\* updateLoad, 'tandemB.<key>' branch: { ...(tandemCircuitB || {}), [key]: value }
updateTandemB(l, key, value) ==
    LET old == IF l.tandemCircuitB = NoTandemB THEN <<>>
               ELSE l.tandemCircuitB[1]
    IN  [l EXCEPT !.tandemCircuitB =
            << [ k \in DOMAIN old \cup {key} |->
                   IF k = key THEN value ELSE old[k] ] >>]

\* updateLoad(id, field, value) applied to the row with that id; field is
\* <<"category">>, <<"breaker", key>>, <<"usage", key>> or <<"tandemB", key>>
updatedLoad(l, field, value, serviceVoltage) ==
    LET updated == markNecEdited(l, field)
    IN  IF field = <<"category">>
          THEN applyCategoryDefaults(updated, value)
        ELSE IF field[1] = "breaker"
          THEN updateBreaker(updated, field[2], value, serviceVoltage)
        ELSE IF field[1] = "usage"
          THEN [updated EXCEPT !.usage[field[2]] = value,
                               !.wattsManuallySet =
                                   (field[2] = "assumedWatts") \/ @]
        ELSE IF field[1] = "tandemB"
          THEN updateTandemB(updated, field[2], value)
        ELSE [updated EXCEPT ![field[1]] = value]

\* the loads that are / are not NEC baseline loads
isBaseline(l) == l.isNECBaseline
isNotBaseline(l) == ~l.isNECBaseline
existingBaselines(ls) == SelectSeq(ls, isBaseline)
nonBaselines(ls) == SelectSeq(ls, isNotBaseline)

----------------------------------------------------------------------------
(* Step 3 handlers: addLoad, addCustomLoad, removeLoad, updateLoad *)

\* Step 3 derives the modeled slots from the loads on every render
TableDerived ==
    modeledSlots' = calculateModeledSlots(loads')

\* the handlers of the load table change project.loads only
tableFrame ==
    UNCHANGED <<necVars, battVars, panel, ev, evf, panelSlots,
                totalAvailableSlots, tandemOverride, now, partialHome,
                currentStep>>

\* a load can still be created within the bounds of the model
canCreate(n) ==
    /\ Len(nonBaselines(loads)) + n <= MaxCustomLoads
    /\ nextLoadId + n - 1 <= MaxLoadIds

\* addLoad(category); the handlers of Step3LoadTable exist while the load
\* table is the step shown
addLoad(category) ==
    /\ currentStep = StepLoadTable
    /\ canCreate(1)
    /\ loads' = Append(loads, addLoadEntry(newLoadId(nextLoadId, now), category))
    /\ nextLoadId' = nextLoadId + 1
    /\ tableFrame
    /\ TableDerived

\* addCustomLoad()
addCustomLoad ==
    /\ currentStep = StepLoadTable
    /\ canCreate(1)
    /\ loads' = Append(loads, addCustomLoadEntry(newLoadId(nextLoadId, now)))
    /\ nextLoadId' = nextLoadId + 1
    /\ tableFrame
    /\ TableDerived

\* mutant of removeLoad: the row is removed whether baseline or not
removeLoad_NoGuard(id) ==
    /\ currentStep = StepLoadTable
    /\ \E i \in 1..Len(loads) : loads[i].id = id
    /\ loads' = SelectSeq(loads, LAMBDA l : l.id # id)
    /\ UNCHANGED nextLoadId
    /\ tableFrame
    /\ TableDerived

\* removeLoad(id): returns without an update for an NEC baseline load
removeLoad(id) ==
    /\ currentStep = StepLoadTable
    /\ \E i \in 1..Len(loads) : loads[i].id = id
    /\ LET load == loads[CHOOSE i \in 1..Len(loads) : loads[i].id = id]
       IN  loads' = IF load.isNECBaseline
                    THEN loads
                    ELSE SelectSeq(loads, LAMBDA l : l.id # id)
    /\ UNCHANGED nextLoadId
    /\ tableFrame
    /\ TableDerived

\* updateLoad(id, field, value)
updateLoad(id, field, value) ==
    /\ currentStep = StepLoadTable
    /\ \E i \in 1..Len(loads) : loads[i].id = id
    /\ loads' = [ i \in 1..Len(loads) |->
                    IF loads[i].id # id THEN loads[i]
                    ELSE updatedLoad(loads[i], field, value,
                                     service.serviceVoltage) ]
    /\ loads' # loads
    /\ UNCHANGED nextLoadId
    /\ tableFrame
    /\ TableDerived

\* the add menu lists the library entries
AddMenuCategories == {LOAD_LIBRARY[k].category : k \in 1..Len(LOAD_LIBRARY)}

\* categories offered by the category dropdown; Other has no library entry
TableCategories == AddMenuCategories \cup {CatOther}

BreakerAmpChoices == {20, 30}
TandemBAmpChoices == {20}
TandemBHoursChoices == {8}

\* the edits the breaker cells of a row offer: the type select is rendered
\* for a 1-pole row only, the circuit B cells for a tandem row with a
\* tandemCircuitB
breakerEdits(l) ==
    {<< <<"category">>, c >> : c \in TableCategories}
      \cup {<< <<"breaker", "poles">>, p >> : p \in {1, 2}}
      \cup {<< <<"breaker", "amps">>, a >> : a \in BreakerAmpChoices}
      \cup (IF l.breaker.poles = 1
            THEN {<< <<"breaker", "type">>, t >> : t \in {"Standard", "Tandem"}}
            ELSE {})
      \cup (IF l.breaker.type = "Tandem" /\ l.tandemCircuitB # NoTandemB
            THEN {<< <<"tandemB", "amps">>, a >> : a \in TandemBAmpChoices}
                   \cup {<< <<"tandemB", "hoursPerDay">>, h >> :
                            h \in TandemBHoursChoices}
            ELSE {})

\* the load table as Step 3 shows it for a new project: the four baseline
\* loads added on mount
InitTable ==
    /\ sqFt = 0
    /\ now = 0
    /\ loads = createNECBaselineLoads(sqFt, 1, now)
    /\ nextLoadId = 5
    /\ service = [serviceVoltage |-> 240, mainBreakerAmps |-> 200]
    /\ nec = [status |-> "not computed"]
    /\ modeledSlots = calculateModeledSlots(loads)
    /\ BattIdle
    /\ panel = InitialPanel
    /\ ev = InitialEV
    /\ evf = NullResult
    /\ panelSlots = calculatePanelSlots(panel)
    /\ totalAvailableSlots = step1TotalAvailableSlots(panel)
    /\ tandemOverride = 0
    /\ partialHome = [enabled |-> FALSE, selections |-> <<>>]
    /\ currentStep = StepLoadTable

\* Specification SpecTable: loads are added to the table, removed and
\* their category and breaker cells edited
NextTable ==
    \/ \E c \in AddMenuCategories : addLoad(c)
    \/ addCustomLoad
    \/ \E i \in 1..Len(loads) : removeLoad(loads[i].id)
    \/ \E i \in 1..Len(loads) :
         /\ ~loads[i].isNECBaseline
         /\ \E e \in breakerEdits(loads[i]) : updateLoad(loads[i].id, e[1], e[2])

SpecTable == InitTable /\ [][NextTable]_vars

----------------------------------------------------------------------------
(* Claims about the load table *)

\* the rows created by addLoad / addCustomLoad
CreatedRows == {i \in 1..Len(loads) : ~loads[i].isNECBaseline}

\* C22: after any sequence of category, poles, breaker type, amps and
\* circuit B edits, every load created by addLoad / addCustomLoad has a
\* tandemCircuitB only if its breaker is a 1-pole Tandem, and a 2-pole load
\* is Standard with tandemCircuitB = null.
C22_TandemCircuitB ==
    \A i \in CreatedRows :
        /\ loads[i].tandemCircuitB # NoTandemB
             => loads[i].breaker.type = "Tandem" /\ loads[i].breaker.poles = 1
        /\ loads[i].breaker.poles = 2
             => loads[i].breaker.type = "Standard"
                  /\ loads[i].tandemCircuitB = NoTandemB

\* C22 witness: a row added as a 2-pole range, moved to a 1-pole category,
\* made a tandem, with the amps of its circuit B edited
C22_Witness ==
    \E i \in CreatedRows :
        /\ loads[i].breaker.type = "Tandem"
        /\ loads[i].tandemCircuitB # NoTandemB
        /\ loads[i].tandemCircuitB[1].amps = 20
        /\ loads[i].category = CatFurnace
        /\ loads[i].description = "Range/Oven"

----------------------------------------------------------------------------
(* NEC baseline loads: the reconciliation on mount of the load table, and   *)
(* the guided questionnaire of Step 2                                       *)

\* the deduplication loop of the mount effect: the first baseline of each
\* key (description || category) is kept while fewer than 4 are kept
RECURSIVE uniqueBaselinesFrom(_, _, _)
uniqueBaselinesFrom(bls, seenDescriptions, uniqueBaselines) ==
    IF bls = <<>> THEN uniqueBaselines
    ELSE LET bl == Head(bls)
             key == IF bl.description # "" THEN <<bl.description>>
                    ELSE bl.category
         IN  IF key \notin seenDescriptions /\ Len(uniqueBaselines) < 4
             THEN uniqueBaselinesFrom(Tail(bls), seenDescriptions \cup {key},
                                      Append(uniqueBaselines, bl))
             ELSE uniqueBaselinesFrom(Tail(bls), seenDescriptions,
                                      uniqueBaselines)

\* the number of baseline loads the mount effect creates
baselinesCreatedOnMount(ls) ==
    IF Len(existingBaselines(ls)) = 0 THEN 4 ELSE 0

\* the loads after the mount effect of Step3LoadTable; firstN is the value
\* of the id counter and t the time
reconcileBaselines(ls, sq, firstN, t) ==
    LET count == Len(existingBaselines(ls))
    IN  IF count = 4 THEN ls
        ELSE IF count = 0
          THEN createNECBaselineLoads(sq, firstN, t) \o nonBaselines(ls)
        ELSE IF count > 4
          THEN uniqueBaselinesFrom(existingBaselines(ls), {}, <<>>)
                 \o nonBaselines(ls)
        ELSE ls

\* buildGuidedLoads(selectedCategories): the baselines and one row for each
\* selected category of the library
buildGuidedLoads(selectedCategories, sq, firstN, t) ==
    LET inLibrary == SelectSeq(selectedCategories,
                               LAMBDA c : libraryFind(c) # <<>>)
    IN  createNECBaselineLoads(sq, firstN, t)
          \o [ k \in 1..Len(inLibrary) |->
                 addLoadEntry(newLoadId(firstN + 3 + k, t), inLibrary[k]) ]

\* handleGuidedComplete: the user has work that a completion would affect
hasExistingWork(ls) ==
    \/ Len(nonBaselines(ls)) > 0
    \/ \E i \in 1..Len(ls) : ls[i].isNECBaseline /\ ls[i].necEdited

\* the guided handlers create 4 + n loads within the bounds of the model
canBuildGuided(n, kept) ==
    /\ n + kept <= MaxCustomLoads
    /\ nextLoadId + 4 + n - 1 <= MaxLoadIds

\* the handlers outside the load table leave the derived slot figure of
\* Step 3 to the next mount
stepFrame ==
    UNCHANGED <<necVars, battVars, panel, ev, evf, panelSlots,
                totalAvailableSlots, tandemOverride, now, partialHome>>

\* goToStep(StepLoadTable) / goNext to the load table: Step3LoadTable mounts
\* and its effect reconciles the baseline loads
mountLoadTable ==
    /\ currentStep # StepLoadTable
    /\ nextLoadId + baselinesCreatedOnMount(loads) - 1 <= MaxLoadIds
    /\ loads' = reconcileBaselines(loads, sqFt, nextLoadId, now)
    /\ nextLoadId' = nextLoadId + baselinesCreatedOnMount(loads)
    /\ currentStep' = StepLoadTable
    /\ modeledSlots' = calculateModeledSlots(loads')
    /\ stepFrame

\* goToStep(step) to a step other than the load table
goToStep(step) ==
    /\ step # StepLoadTable
    /\ currentStep # step
    /\ currentStep' = step
    /\ UNCHANGED <<loads, nextLoadId, modeledSlots>>
    /\ stepFrame

\* the loads are replaced, goNext() shows the load table and its mount
\* effect runs on the new loads
guidedFinish(newLoads, created) ==
    /\ loads' = reconcileBaselines(newLoads, sqFt, nextLoadId + created, now)
    /\ nextLoadId' = nextLoadId + created + baselinesCreatedOnMount(newLoads)
    /\ currentStep' = StepLoadTable
    /\ modeledSlots' = calculateModeledSlots(loads')
    /\ stepFrame

\* handleGuidedComplete(selectedCategories) without existing work
handleGuidedComplete(selectedCategories) ==
    /\ currentStep = StepEntry
    /\ ~hasExistingWork(loads)
    /\ canBuildGuided(Len(selectedCategories), 0)
    /\ guidedFinish(buildGuidedLoads(selectedCategories, sqFt, nextLoadId, now),
                    4 + Len(selectedCategories))

\* handleGuidedComplete shows the modal, then handleMergeReplace
handleMergeReplace(selectedCategories) ==
    /\ currentStep = StepEntry
    /\ hasExistingWork(loads)
    /\ canBuildGuided(Len(selectedCategories), 0)
    /\ guidedFinish(buildGuidedLoads(selectedCategories, sqFt, nextLoadId, now),
                    4 + Len(selectedCategories))

\* handleGuidedComplete shows the modal, then handleMergeMerge
handleMergeMerge(selectedCategories) ==
    /\ currentStep = StepEntry
    /\ hasExistingWork(loads)
    /\ canBuildGuided(Len(selectedCategories), Len(nonBaselines(loads)))
    /\ guidedFinish(buildGuidedLoads(selectedCategories, sqFt, nextLoadId, now)
                      \o nonBaselines(loads),
                    4 + Len(selectedCategories))

\* categories ticked in the questionnaire (library categories)
GuidedSelections == {<<>>, <<CatRange>>, <<CatRange, CatFurnace>>}

\* ids of the loads of a project file: created at time t of an earlier
\* session
savedId(i, t) == newLoadId(i, t)

\* the baseline load with a description, as createNECBaselineLoads made it
savedBaseline(description, id) ==
    LET made == createNECBaselineLoads(0, 1, 0)
        k == CHOOSE j \in 1..4 : made[j].description = description
    IN  [made[k] EXCEPT !.id = id]

\* project files opened by 'Load' / 'Import' or at start: the descriptions
\* of their baseline loads, and whether a custom load follows
ProjectFiles ==
    { << <<>>, FALSE >>,
      << <<DescLighting, DescSmallAppliance1, DescSmallAppliance2,
            DescLaundry>>, FALSE >>,
      << <<DescLighting, DescSmallAppliance1, DescSmallAppliance2,
            DescLaundry>>, TRUE >>,
      << <<DescLighting, DescSmallAppliance1>>, FALSE >>,
      << <<DescLighting, DescSmallAppliance1, DescSmallAppliance2,
            DescLaundry, DescLighting, DescSmallAppliance1,
            DescSmallAppliance2, DescLaundry>>, FALSE >>,
      << <<DescLighting, DescSmallAppliance1, DescSmallAppliance1,
            DescSmallAppliance2, DescSmallAppliance2>>, FALSE >> }

\* the loads of a project file saved at time t
loadsOfFile(file, t) ==
    [ i \in 1..Len(file[1]) |-> savedBaseline(file[1][i], savedId(i, t)) ]
      \o (IF file[2] THEN <<addCustomLoadEntry(savedId(Len(file[1]) + 1, t))>>
          ELSE <<>>)

\* the edit of a usage cell tried on any row
HoursChoices == {6}

\* Specification SpecBaseline: a project is opened at Step 1; the user moves
\* between the steps, completes the questionnaire, and adds, removes and
\* edits loads in the load table
InitBaseline ==
    /\ \E file \in ProjectFiles : loads = loadsOfFile(file, 0)
    /\ sqFt = 0
    /\ service = [serviceVoltage |-> 240, mainBreakerAmps |-> 200]
    /\ nec = [status |-> "not computed"]
    /\ modeledSlots = 0
    /\ BattIdle
    /\ panel = InitialPanel
    /\ ev = InitialEV
    /\ evf = NullResult
    /\ panelSlots = calculatePanelSlots(panel)
    /\ totalAvailableSlots = step1TotalAvailableSlots(panel)
    /\ tandemOverride = 0
    /\ nextLoadId = 1
    /\ now = 1
    /\ partialHome = [enabled |-> FALSE, selections |-> <<>>]
    /\ currentStep = 0

NextBaseline ==
    \/ mountLoadTable
    \/ \E step \in {0, StepEntry} : goToStep(step)
    \/ \E sel \in GuidedSelections : handleGuidedComplete(sel)
    \/ \E sel \in GuidedSelections : handleMergeReplace(sel)
    \/ \E sel \in GuidedSelections : handleMergeMerge(sel)
    \/ \E c \in AddMenuCategories : addLoad(c)
    \/ addCustomLoad
    \/ \E i \in 1..Len(loads) : removeLoad(loads[i].id)
    \/ \E i \in 1..Len(loads), h \in HoursChoices :
         updateLoad(loads[i].id, <<"usage", "hoursPerDay">>, h)

SpecBaseline == InitBaseline /\ [][NextBaseline]_vars

----------------------------------------------------------------------------
(* Claims about the NEC baseline loads *)

\* the number of loads with isNECBaseline = true
BaselineCount(ls) == Cardinality({i \in 1..Len(ls) : ls[i].isNECBaseline})

\* C23: removeLoad on a load with isNECBaseline = true leaves the load list
\* unchanged, and a project holding four baseline loads still holds exactly
\* four after addLoad, addCustomLoad, removeLoad, updateLoad and a guided
\* completion (direct, Replace or Merge).
C23_BaselinesKept ==
    [][ /\ BaselineCount(loads) = 4 => BaselineCount(loads') = 4
        /\ \A i \in 1..Len(loads) :
              (loads[i].isNECBaseline /\ removeLoad(loads[i].id))
                 => loads' = loads ]_vars

\* C23 witness: the load table after a Merge completion on a project that
\* held four baselines and a custom load: four baselines created in this
\* session (at time 1), one of them then edited, and the custom load of
\* the file (created at time 0)
C23_Witness ==
    /\ currentStep = StepLoadTable
    /\ BaselineCount(loads) = 4
    /\ \A i \in 1..Len(loads) :
          loads[i].isNECBaseline => loads[i].id[2] = 1
    /\ \E i \in 1..Len(loads) : loads[i].isNECBaseline /\ loads[i].necEdited
    /\ \E i \in 1..Len(loads) :
          ~loads[i].isNECBaseline /\ loads[i].id[2] = 0

\* the descriptions of the baseline loads of a list
BaselineDescriptions(ls) ==
    {ls[i].description : i \in {j \in 1..Len(ls) : ls[j].isNECBaseline}}

\* C24 (as claimed): every view of the load table reconciles the baseline
\* loads: with no baseline load four fresh ones are added, with more than
\* four they are deduplicated by description so that exactly four remain,
\* and with one to three the load list is left untouched.
C24_Reconciled ==
    [][ mountLoadTable =>
          /\ BaselineCount(loads) = 0 =>
                /\ BaselineCount(loads') = 4
                /\ nonBaselines(loads') = nonBaselines(loads)
          /\ BaselineCount(loads) > 4 =>
                /\ BaselineCount(loads') = 4
                /\ Cardinality(BaselineDescriptions(loads')) = 4
                /\ nonBaselines(loads') = nonBaselines(loads)
          /\ BaselineCount(loads) \in 1..3 => loads' = loads ]_vars

\* what the mount effect does guarantee: with more than four baselines the
\* ones kept have distinct descriptions and are at most four
C24_AtMostFourDistinct ==
    [][ mountLoadTable =>
          /\ BaselineCount(loads) = 0 =>
                /\ BaselineCount(loads') = 4
                /\ nonBaselines(loads') = nonBaselines(loads)
          /\ BaselineCount(loads) > 4 =>
                /\ BaselineCount(loads') <= 4
                /\ Cardinality(BaselineDescriptions(loads'))
                     = BaselineCount(loads')
                /\ BaselineDescriptions(loads') = BaselineDescriptions(loads)
                /\ nonBaselines(loads') = nonBaselines(loads)
          /\ BaselineCount(loads) \in 1..4 => loads' = loads ]_vars

----------------------------------------------------------------------------
(* Step 6 (partial-home backup): the selections of the loads *)

\* a selection entry is a function on a subset of {"include", "hoursPerDay"}:
\* a field outside its domain is undefined
selectionOf(include, hoursPerDay) ==
    [include |-> include, hoursPerDay |-> hoursPerDay]

definedIn(entry, field) == field \in DOMAIN entry

\* sel.include as a condition: undefined is falsy
includeOf(entry) == definedIn(entry, "include") /\ entry.include

\* togglePartialMode(enabled): on enabling, every load without an entry
\* gets one from its usage
toggledSelections(selections, ls, enabled) ==
    LET ids == {ls[i].id : i \in 1..Len(ls)}
        usageOf(id) == ls[CHOOSE i \in 1..Len(ls) : ls[i].id = id].usage
    IN  IF enabled
        THEN [ id \in DOMAIN selections \cup ids |->
                 IF id \in DOMAIN selections THEN selections[id]
                 ELSE selectionOf(usageOf(id).includeInBatteryCalc,
                                  usageOf(id).hoursPerDay) ]
        ELSE selections

\* updateSelection(loadId, field, value):
\* selections[loadId] = {...selections[loadId], [field]: value}
updatedSelections(selections, ls, loadId, field, value) ==
    LET old == IF loadId \in DOMAIN selections THEN selections[loadId]
               ELSE <<>>
    IN  [ id \in DOMAIN selections \cup {loadId} |->
            IF id = loadId
            THEN [ k \in DOMAIN old \cup {field} |->
                     IF k = field THEN value ELSE old[k] ]
            ELSE selections[id] ]

\* the entry a row of the selection table displays
displayedSelection(selections, l) ==
    IF l.id \in DOMAIN selections THEN selections[l.id]
    ELSE selectionOf(FALSE, l.usage.hoursPerDay)

\* selectedIds: the ids whose entry has a truthy include
selectedIds(selections) ==
    {id \in DOMAIN selections : includeOf(selections[id])}

\* the energy partialResult reports is a number: every load sized has a
\* numeric hoursPerDay after the partial-home hours are applied
partialEnergyIsNumber(ls, selections) ==
    \A i \in 1..Len(ls) :
        (ls[i].id \in selectedIds(selections))
           => definedIn(selections[ls[i].id], "hoursPerDay")

partialFrame ==
    UNCHANGED <<loads, necVars, battVars, evVars, tandemOverride, nextLoadId,
                now, currentStep>>

\* togglePartialMode(enabled)
togglePartialMode(enabled) ==
    /\ currentStep = StepPartial
    /\ partialHome.enabled # enabled
    /\ partialHome' = [ enabled |-> enabled,
                        selections |-> toggledSelections(partialHome.selections,
                                                         loads, enabled) ]
    /\ partialFrame

\* updateSelection(loadId, field, value)
updateSelection(loadId, field, value) ==
    /\ currentStep = StepPartial
    /\ partialHome.enabled
    /\ partialHome' = [ partialHome EXCEPT !.selections =
                          updatedSelections(@, loads, loadId, field, value) ]
    /\ partialHome' # partialHome
    /\ partialFrame

\* hours typed in a row of the selection table (clamped to 0..24)
SelectionHoursChoices == {12, 30}

\* the rows whose cells are used: the loads of the add menu and the first
\* baseline load
SelectionRows == {i \in 1..Len(loads) : ~loads[i].isNECBaseline \/ i = 1}

\* Specification SpecPartial: loads are added and removed in the load
\* table, partial-home mode is switched, and the include and hours cells
\* of Step 6 are used
InitPartial == InitTable

NextPartial ==
    \/ mountLoadTable
    \/ goToStep(StepPartial)
    \/ \E c \in AddMenuCategories : addLoad(c)
    \/ addCustomLoad
    \/ \E i \in 1..Len(loads) : removeLoad(loads[i].id)
    \/ \E enabled \in BOOLEAN : togglePartialMode(enabled)
    \/ \E i \in SelectionRows :
         updateSelection(loads[i].id, "include",
                         ~displayedSelection(partialHome.selections,
                                             loads[i]).include)
    \/ \E i \in SelectionRows, h \in SelectionHoursChoices :
         /\ displayedSelection(partialHome.selections, loads[i]).include
         /\ updateSelection(loads[i].id, "hoursPerDay", Max(0, Min(24, h)))

SpecPartial == InitPartial /\ [][NextPartial]_vars

\* C29 (as claimed): whatever the sequence of switching partial-home mode,
\* adding and removing loads and using the include and hours cells, every
\* selection entry with include = true has a numeric hoursPerDay in 0..24,
\* so the energy of the partial-home sizing is a number.
C29_SelectedHoursDefined ==
    /\ \A id \in DOMAIN partialHome.selections :
          includeOf(partialHome.selections[id])
             => /\ definedIn(partialHome.selections[id], "hoursPerDay")
                /\ partialHome.selections[id].hoursPerDay \in 0..24
    /\ partialEnergyIsNumber(loads, partialHome.selections)

\* what holds: an entry that has an hoursPerDay has it in 0..24
C29_HoursInRange ==
    \A id \in DOMAIN partialHome.selections :
        definedIn(partialHome.selections[id], "hoursPerDay")
           => partialHome.selections[id].hoursPerDay \in 0..24

----------------------------------------------------------------------------
(* Load ids: the counter of createLoadEntry, the clock, 'New' and 'Import' *)

\* latest time the clock reaches
MaxClock == 1

\* createInitialProject(): no loads, partial-home mode off
handleNewProject ==
    /\ nextLoadId' = 1
    /\ loads' = <<>>
    /\ partialHome' = [enabled |-> FALSE, selections |-> <<>>]
    /\ panel' = InitialPanel
    /\ ev' = InitialEV
    /\ currentStep' = 0
    /\ <<loads, nextLoadId, partialHome, currentStep>>
         # <<loads', nextLoadId', partialHome', currentStep'>>
    /\ UNCHANGED <<necVars, battVars, evf, panelSlots, modeledSlots,
                   totalAvailableSlots, tandemOverride, now>>

\* handleImportJSON: setProject(data); setCurrentStep(0); the id counter
\* keeps its value
handleImportJSON(data) ==
    /\ loads' = data
    /\ currentStep' = 0
    /\ <<loads, currentStep>> # <<loads', currentStep'>>
    /\ UNCHANGED <<necVars, battVars, evVars, tandemOverride, nextLoadId, now,
                   partialHome>>

\* Date.now() returns a later time
tick ==
    /\ now < MaxClock
    /\ now' = now + 1
    /\ UNCHANGED <<loads, necVars, battVars, evVars, tandemOverride,
                   nextLoadId, partialHome, currentStep>>

\* the project files imported: four baseline loads, with or without a custom
\* load, saved at any time of the clock
ImportedFiles ==
    { file \in ProjectFiles : Len(file[1]) = 4 }

\* Specification SpecIds: loads are created in the load table while the
\* clock advances, the project is replaced by 'New' and by 'Import'
InitIds ==
    /\ loads = <<>>
    /\ sqFt = 0
    /\ service = [serviceVoltage |-> 240, mainBreakerAmps |-> 200]
    /\ nec = [status |-> "not computed"]
    /\ modeledSlots = 0
    /\ BattIdle
    /\ panel = InitialPanel
    /\ ev = InitialEV
    /\ evf = NullResult
    /\ panelSlots = calculatePanelSlots(panel)
    /\ totalAvailableSlots = step1TotalAvailableSlots(panel)
    /\ tandemOverride = 0
    /\ nextLoadId = 1
    /\ now = 0
    /\ partialHome = [enabled |-> FALSE, selections |-> <<>>]
    /\ currentStep = 0

NextIds ==
    \/ tick
    \/ handleNewProject
    \/ \E file \in ImportedFiles, t \in 0..MaxClock :
         handleImportJSON(loadsOfFile(file, t))
    \/ mountLoadTable
    \/ addCustomLoad
    \/ \E i \in 1..Len(loads) : removeLoad(loads[i].id)

SpecIds == InitIds /\ [][NextIds]_vars

\* the ids of a load list are pairwise distinct
IdsDistinct(ls) ==
    \A i, j \in 1..Len(ls) : i # j => ls[i].id # ls[j].id

\* C25 (as claimed): whatever the sequence of load creations, 'New project'
\* counter resets and imports, a newly created load never has the id of
\* another load of the project: the ids of the loads are pairwise distinct.
C25_IdsUnique == IdsDistinct(loads)

\* what holds: a step taken when every load of the project was created at
\* an earlier time than the clock shows keeps the ids distinct
C25_DistinctWhenLater ==
    [][ ((\A i \in 1..Len(loads) : loads[i].id[2] < now) /\ IdsDistinct(loads))
          => IdsDistinct(loads') ]_vars

----------------------------------------------------------------------------
(* The arguments of the engine functions after a call.  The engine reads    *)
(* its arguments and builds new arrays and new objects for what it changes. *)

\* mutant of batterySizingInputs: the partial-home hours are assigned to the
\* load objects themselves (l.usage.hoursPerDay = sel.hoursPerDay)
batterySizingInputs_HoursInPlace(ls, opts) ==
    LET keep(l) == IF opts.includeLoadIds # NullIds
                   THEN l.id \in opts.includeLoadIds
                   ELSE l.usage.includeInBatteryCalc
        sel == opts.partialSelections
        assigned(l) == [l EXCEPT !.usage.hoursPerDay = sel[l.id].hoursPerDay]
    IN  [ loads |-> [ i \in 1..Len(ls) |->
                        IF keep(ls[i]) /\ ls[i].id \in DOMAIN sel
                        THEN assigned(ls[i]) ELSE ls[i] ],
          proposedEVLoads |->
                    [ i \in 1..Len(opts.proposedEVLoads) |->
                        IF opts.proposedEVLoads[i].id \in DOMAIN sel
                        THEN assigned(opts.proposedEVLoads[i])
                        ELSE opts.proposedEVLoads[i] ] ]

\* calculateBatterySizing: loads and options.proposedEVLoads after the call.
\* loads.filter returns a new array; [...filteredLoads, ...proposedEVLoads]
\* is a new array; the hours override returns
\* { ...l, usage: { ...l.usage, hoursPerDay } }, a new object with a new
\* usage object, for each load that has a selection entry.  Neither array
\* and none of their load objects is written.
batterySizingInputs(ls, opts) ==
    [ loads |-> ls, proposedEVLoads |-> opts.proposedEVLoads ]

\* calculateEVFeasibility: project.loads after the call.  The synthetic EV
\* loads are pushed onto the new array evSyntheticLoads, and the estimator
\* is given the new array [...loads, ...evSyntheticLoads].
evFeasibilityInputs(ls, e) == ls

\* the partial-home selections and the proposed chargers given to the sizing
FramePartialSelections ==
    { <<>>,
      [ id \in {1} |-> [hoursPerDay |-> 2] ],
      [ id \in {2, proposedEVId(1)} |-> [hoursPerDay |-> 2] ] }

FrameIncludeLoadIds == { NullIds, {1, 2} }

FrameOptions ==
    { [ includeLoadIds     |-> ids,
        solarOffsetPercent |-> 0,
        proposedEVLoads    |-> [i \in 1..n |-> proposedEVLoad(i)],
        partialSelections  |-> sel ] :
      ids \in FrameIncludeLoadIds, n \in 0..MaxChargers,
      sel \in FramePartialSelections }

\* Specification SpecFrame: a project and the options of the sizing are
\* drawn; each engine function is called on them, its result is stored and
\* its arguments are left as the function leaves them
InitFrame ==
    /\ loads = [ i \in 1..Len(SelectionLoads) |->
                   createLoadEntry(i, CatOther, SelectionLoads[i][1],
                                   SelectionLoads[i][2], SelectionLoads[i][3],
                                   SelectionLoads[i][4], 1, "Standard") ]
    /\ service = [serviceVoltage |-> 240, mainBreakerAmps |-> 200]
    /\ sqFt = 0
    /\ nec = [status |-> "not computed"]
    /\ backupDays = 4
    /\ options \in FrameOptions
    /\ specs \in BatterySpecTables
    /\ batt = [summary |-> "not computed"]
    /\ practical = [motorLoads |-> 0]
    /\ panel = InitialPanel
    /\ \E c \in EVChargerOptions, n \in 1..MaxChargers :
          ev = [chargerOption |-> <<c>>, customContinuousAmps |-> 24,
                chargerCount |-> n]
    /\ evf = NullResult
    /\ panelSlots = [availableSlots |-> 0]
    /\ modeledSlots = 0
    /\ totalAvailableSlots = 0
    /\ UiIdle

\* calculatePanelSlots(panel)
callPanelSlots ==
    /\ panelSlots' = calculatePanelSlots(panel)
    /\ UNCHANGED <<loads, necVars, battVars, panel, ev, evf, modeledSlots,
                   totalAvailableSlots, uiVars>>

\* calculateModeledSlots(loads)
callModeledSlots ==
    /\ modeledSlots' = calculateModeledSlots(loads)
    /\ UNCHANGED <<loads, necVars, battVars, panel, ev, evf, panelSlots,
                   totalAvailableSlots, uiVars>>

\* calculateNECOptionalMethod(loads, service, sqFt)
callNECOptionalMethod ==
    /\ nec' = calculateNECOptionalMethod(loads, service, sqFt)
    /\ UNCHANGED <<loads, service, sqFt, battVars, evVars, uiVars>>

\* calculatePracticalLoad(loads)
callPracticalLoad ==
    /\ practical' = calculatePracticalLoad(loads, NullIds)
    /\ UNCHANGED <<loads, necVars, backupDays, options, specs, batt, evVars,
                   uiVars>>

\* calculateBatterySizing(loads, backupDays, options)
callBatterySizing ==
    /\ batt' = calculateBatterySizing(loads, backupDays, options, specs)
    /\ loads' = batterySizingInputs(loads, options).loads
    /\ options' = [options EXCEPT !.proposedEVLoads =
                      batterySizingInputs(loads, options).proposedEVLoads]
    /\ UNCHANGED <<necVars, backupDays, specs, practical, evVars, uiVars>>

\* calculateEVFeasibility(project)
callEVFeasibility ==
    /\ evf' = calculateEVFeasibility(loads, service, panel, ev)
    /\ loads' = evFeasibilityInputs(loads, ev)
    /\ UNCHANGED <<necVars, battVars, panel, ev, panelSlots, modeledSlots,
                   totalAvailableSlots, uiVars>>

NextFrame ==
    \/ callPanelSlots
    \/ callModeledSlots
    \/ callNECOptionalMethod
    \/ callPracticalLoad
    \/ callBatterySizing
    \/ callEVFeasibility

SpecFrame == InitFrame /\ [][NextFrame]_vars

\* the arguments of the engine functions: the project and the sizing options
EngineInputs ==
    <<loads, service, sqFt, panel, ev, backupDays, options, partialHome>>

====
